---- MODULE Spec2Model ----
(***************************************************************************)
(* State-machine model of the A2A multi-agent system: CustomerAgent,       *)
(* ProductAgent, SalesAgent and RouterAgent over the customers, products   *)
(* and sales tables.                                                       *)
(*                                                                         *)
(* Python values are tagged records so that values of different types can  *)
(* be compared:  None, str, number, dict, list.  A str is a sequence of    *)
(* pieces; a piece is [c |-> "..."] (a run of characters, " " being white  *)
(* space), [n |-> m] (a numeral) or [str |-> s] (a quoted JSON string      *)
(* literal).  A number is kept in thousandths (m = 2500 is 2.5), which is  *)
(* exact for every id, quantity and price the model uses.  INTEGER columns *)
(* hold integers, DECIMAL(10,2) columns hold [cents |-> c] (hundredths) or *)
(* the column type's NaN.                                                  *)
(***************************************************************************)
EXTENDS Integers, Sequences, FiniteSets, TLC

\* ------------------------------------------------------------------ bounds
MaxCustomers == 1
MaxProducts == 1
MaxSales == 1
\* the ids each table hands out where ids are followed through adds and deletes
MaxIds == 2
\* the largest number of SalesAgent calls nested in one another that the
\* model follows
MaxDepth == 3

\* ------------------------------------------------------- Python values
None == [t |-> "none"]
PyStr(s) == [t |-> "str", s |-> s]
Ch(x) == [c |-> x]
Str(x) == PyStr(<<Ch(x)>>)
EmptyStr == PyStr(<<>>)
Num(m) == [t |-> "num", m |-> m]
Whole(i) == Num(i * 1000)
\* float("nan"), the float that json.loads makes of NaN
NaN == [t |-> "num", nan |-> TRUE]
Dict(items) == [t |-> "dict", items |-> items]
Item(k, v) == [k |-> k, v |-> v]
EmptyDict == Dict(<<>>)
List(elems) == [t |-> "list", elems |-> elems]

IsStr(v) == v.t = "str"
IsDict(v) == v.t = "dict"
IsNum(v) == v.t = "num"

\* dict.get(key, default); a key given twice keeps its last value
RECURSIVE Get(_, _, _)
Get(d, key, default) ==
    IF d.items = <<>> THEN default
    ELSE IF d.items[Len(d.items)].k = key THEN d.items[Len(d.items)].v
    ELSE Get(Dict(SubSeq(d.items, 1, Len(d.items) - 1)), key, default)

\* Python truthiness: None, "", 0, {} and [] are false
Truthy(v) ==
    CASE v.t = "none" -> FALSE
      [] v.t = "str"  -> Len(v.s) > 0
      [] v.t = "num"  -> v = NaN \/ v.m # 0
      [] v.t = "dict" -> Len(v.items) > 0
      [] v.t = "list" -> Len(v.elems) > 0

RECURSIVE LStrip(_)
LStrip(s) == IF s # <<>> /\ Head(s) = Ch(" ") THEN LStrip(Tail(s)) ELSE s

RECURSIVE RStrip(_)
RStrip(s) == IF s # <<>> /\ s[Len(s)] = Ch(" ")
             THEN RStrip(SubSeq(s, 1, Len(s) - 1)) ELSE s

\* str.strip()
Strip(v) == PyStr(RStrip(LStrip(v.s)))

\* int(x) on a number: truncation toward zero
PyInt(v) == IF v.m >= 0 THEN v.m \div 1000 ELSE -((-v.m) \div 1000)

\* piece sequence of an f-string field
Fmt(v) ==
    CASE v.t = "none" -> <<Ch("None")>>
      [] v.t = "str"  -> v.s
      [] v.t = "num"  -> IF v = NaN THEN <<Ch("nan")>> ELSE <<[n |-> v.m]>>
      [] v.t = "dict" -> <<Ch("{...}")>>
      [] v.t = "list" -> <<Ch("[...]")>>

\* result of a call that may raise: exc = TRUE carries str(e) in msg
Raise(msg) == [exc |-> TRUE, msg |-> msg, val |-> None]
Return(v) == [exc |-> FALSE, msg |-> <<>>, val |-> v]

\* ------------------------------------------------------------------ JSON
\* json.dumps: the text of a value, as a sequence of tokens
RECURSIVE Dumps(_)
RECURSIVE DumpItems(_)
RECURSIVE DumpElems(_)
DumpElems(elems) ==
    IF elems = <<>> THEN <<>>
    ELSE Dumps(Head(elems)) \o (IF Tail(elems) = <<>> THEN <<>> ELSE <<Ch(",")>>)
         \o DumpElems(Tail(elems))

DumpItems(items) ==
    IF items = <<>> THEN <<>>
    ELSE <<[str |-> <<Ch(Head(items).k)>>], Ch(":")>> \o Dumps(Head(items).v)
         \o (IF Tail(items) = <<>> THEN <<>> ELSE <<Ch(",")>>)
         \o DumpItems(Tail(items))

Dumps(v) ==
    CASE v.t = "none" -> <<Ch("null")>>
      [] v.t = "num"  -> IF v = NaN THEN <<Ch("NaN")>> ELSE <<[n |-> v.m]>>
      [] v.t = "str"  -> <<[str |-> v.s]>>
      [] v.t = "dict" -> <<Ch("{")>> \o DumpItems(v.items) \o <<Ch("}")>>
      [] v.t = "list" -> <<Ch("[")>> \o DumpElems(v.elems) \o <<Ch("]")>>

\* the decoder's result: the value read and the tokens left, or a failure
ParseFail == [ok |-> FALSE, val |-> None, rest |-> <<>>]
Parsed(v, rest) == [ok |-> TRUE, val |-> v, rest |-> rest]

RECURSIVE ParseValue(_)
RECURSIVE ParseMembers(_, _)
RECURSIVE ParseElems(_, _)

\* elements of an array after "[" or ","; acc holds the elements read so far
ParseElems(toks, acc) ==
    LET pv == ParseValue(toks)
    IN IF ~pv.ok \/ pv.rest = <<>> THEN ParseFail
       ELSE IF Head(pv.rest) = Ch("]")
       THEN Parsed(List(Append(acc, pv.val)), Tail(pv.rest))
       ELSE IF Head(pv.rest) = Ch(",")
       THEN ParseElems(Tail(pv.rest), Append(acc, pv.val))
       ELSE ParseFail

\* members of an object after "{" or ","; acc holds the items read so far
ParseMembers(toks, acc) ==
    IF Len(toks) < 2 \/ "str" \notin DOMAIN toks[1] \/ toks[2] # Ch(":")
       \/ Len(toks[1].str) # 1
    THEN ParseFail
    ELSE LET pv == ParseValue(SubSeq(toks, 3, Len(toks)))
         IN IF ~pv.ok \/ pv.rest = <<>> \/ "c" \notin DOMAIN toks[1].str[1]
            THEN ParseFail
            ELSE IF Head(pv.rest) = Ch("}")
            THEN Parsed(Dict(Append(acc, Item(toks[1].str[1].c, pv.val))), Tail(pv.rest))
            ELSE IF Head(pv.rest) = Ch(",")
            THEN ParseMembers(Tail(pv.rest), Append(acc, Item(toks[1].str[1].c, pv.val)))
            ELSE ParseFail

ParseValue(toks) ==
    IF toks = <<>> THEN ParseFail
    ELSE CASE "n" \in DOMAIN Head(toks)   -> Parsed(Num(Head(toks).n), Tail(toks))
           [] "str" \in DOMAIN Head(toks) -> Parsed(PyStr(Head(toks).str), Tail(toks))
           [] Head(toks) = Ch("null")     -> Parsed(None, Tail(toks))
           [] Head(toks) = Ch("NaN")      -> Parsed(NaN, Tail(toks))
           [] Head(toks) = Ch("{")        ->
                 IF Len(toks) >= 2 /\ toks[2] = Ch("}")
                 THEN Parsed(EmptyDict, SubSeq(toks, 3, Len(toks)))
                 ELSE ParseMembers(Tail(toks), <<>>)
           [] Head(toks) = Ch("[")        ->
                 IF Len(toks) >= 2 /\ toks[2] = Ch("]")
                 THEN Parsed(List(<<>>), SubSeq(toks, 3, Len(toks)))
                 ELSE ParseElems(Tail(toks), <<>>)
           [] OTHER -> ParseFail

\* json.loads(text): ok = FALSE stands for json.JSONDecodeError
Loads(v) ==
    LET p == ParseValue(v.s)
    IN IF p.ok /\ p.rest = <<>> THEN [ok |-> TRUE, val |-> p.val]
       ELSE [ok |-> FALSE, val |-> None]

\* --------------------------------------------------------- SQL conversions
\* round half away from zero of m / unit
RoundDiv(m, unit) ==
    IF m >= 0 THEN (2 * m + unit) \div (2 * unit)
    ELSE -((2 * (-m) + unit) \div (2 * unit))

\* a number assigned to an INTEGER column
PgInteger(v) == RoundDiv(v.m, 1000)

\* a number assigned to a DECIMAL(10,2) column: rounded to the cent; NaN is a
\* value of the column type and is stored as it is
PgNaN == [nan |-> TRUE]
PgDecimal(v) == IF v = NaN THEN PgNaN ELSE [cents |-> RoundDiv(v.m, 10)]

\* DECIMAL(10,2) holds absolute values below 10^8
DecimalLimit == 100000000
DecimalFits(v) ==
    \/ v = NaN
    \/ (IF v.m >= 0 THEN RoundDiv(v.m, 10) ELSE -RoundDiv(v.m, 10)) \div 100 < DecimalLimit

\* float(row['price']): a DECIMAL(10,2) value read back as a number
FromDecimal(d) == IF d = PgNaN THEN NaN ELSE Num(d.cents * 10)

\* `WHERE id = %s`: the rows whose id equals the parameter
RowsMatching(p, rows) == {i \in DOMAIN rows : IsNum(p) /\ p.m = i * 1000}

Insert(rows, i, row) == [j \in DOMAIN rows \cup {i} |-> IF j = i THEN row ELSE rows[j]]
Delete(rows, ids) == [j \in DOMAIN rows \ ids |-> rows[j]]

\* the ids of a table in ascending order (ORDER BY id)
RECURSIVE OrderById(_)
OrderById(ids) ==
    IF ids = {} THEN <<>>
    ELSE LET i == CHOOSE i \in ids : \A j \in ids : i <= j
         IN <<i>> \o OrderById(ids \ {i})

\* outcome of a store call: exc/msg/val as for Raise and Return, rows and seq
\* after the call, calls the lookups and statements issued, in order
Done(val, rows, seq, calls) ==
    [exc |-> FALSE, msg |-> <<>>, val |-> val, rows |-> rows, seq |-> seq,
     calls |-> calls]
Failed(msg, rows, seq, calls) ==
    [exc |-> TRUE, msg |-> msg, val |-> None, rows |-> rows, seq |-> seq,
     calls |-> calls]
DbError == <<Ch("database error")>>

\* a read whose connection stays open when the SELECT raises, as without
\* the finally arm (a faulty variant, against which C24 is tested)
ReadLeaking(r) ==
    [exc |-> r.exc, msg |-> r.msg, val |-> r.val,
     calls |-> IF r.exc THEN <<"connect", "SELECT">>
               ELSE <<"connect", "SELECT", "close">>]

\* outcome r of a read (list_*, get_*): conn = get_connection(), one SELECT
\* in a try whose only handler is `finally: conn.close()`
Read(r) ==
    [exc |-> r.exc, msg |-> r.msg, val |-> r.val,
     calls |-> <<"connect", "SELECT", "close">>]

\* ------------------------------------------------------------ envelopes
Success == Str("success")
Error == Str("error")

SuccessEnv(action, msg, extra) ==
    Dict(<<Item("status", Success), Item("action", Str(action)),
           Item("message", PyStr(msg))>> \o extra)

ErrorEnv(action, msg) ==
    Dict(<<Item("status", Error), Item("action", Str(action)),
           Item("message", PyStr(msg))>>)

\* the except arm returning no message (a faulty variant, against which C14
\* is tested)
CommandFailedSilently(e) ==
    Dict(<<Item("status", Error), Item("action", Str("parse_command"))>>)

\* the `except Exception as e` arm of every process_*_command
CommandFailed(e) ==
    ErrorEnv("parse_command", <<Ch("Command failed: ")>> \o e)

\* outcome of a command: the envelope returned, rows and seq after it, and
\* the lookups and statements issued
Outcome(env, rows, seq, calls) ==
    [env |-> env, rows |-> rows, seq |-> seq, calls |-> calls]

\* the classifier's reply to process_*_command: intent and parameters as JSON text
IntentReply(intent, params) ==
    [exc |-> FALSE,
     content |-> PyStr(Dumps(Dict(<<Item("intent", Str(intent)),
                                    Item("parameters", Dict(params))>>)))]

\* what the classifier answers to a command: it fails, it answers in prose, it
\* answers with JSON that is no object, or it names an intent and parameters
ClassifierFailures == {"classifier error", "not json", "json list"}
Classify(intent, params) ==
    CASE intent = "classifier error" -> [exc |-> TRUE, content |-> EmptyStr]
      [] intent = "not json" -> [exc |-> FALSE, content |-> Str("Sure! Here is the JSON")]
      [] intent = "json list" -> [exc |-> FALSE, content |-> PyStr(Dumps(List(<<>>)))]
      [] OTHER -> IntentReply(intent, params)
\* --------------------------------------------------------- CustomerAgent
\* add_customer taking the id after the largest id in the table, as with
\* SELECT max(id) + 1 in place of the SERIAL column (a faulty variant, against
\* which C21 is tested)
add_customer_after_largest(name, email, rows, seq, db) ==
    LET id == IF DOMAIN rows = {} THEN 1
              ELSE 1 + CHOOSE i \in DOMAIN rows : \A j \in DOMAIN rows : j <= i
    IN IF db # "ok" THEN Failed(DbError, rows, seq, <<"connect", "INSERT", "rollback", "close">>)
       ELSE Done(Whole(id), Insert(rows, id, [name |-> name, email |-> email]),
                 IF id > seq THEN id ELSE seq, <<"connect", "INSERT", "commit", "close">>)

add_customer(name, email, rows, seq, db) ==
    IF db # "ok" THEN Failed(DbError, rows, seq, <<"connect", "INSERT", "rollback", "close">>)
    ELSE Done(Whole(seq + 1), Insert(rows, seq + 1, [name |-> name, email |-> email]),
              seq + 1, <<"connect", "INSERT", "commit", "close">>)

\* one row as the dict that list_customers and get_customer format
CustomerDict(i, r) ==
    Dict(<<Item("id", Whole(i)), Item("name", r.name), Item("email", r.email),
           Item("created_at", Str("<iso-8601>"))>>)

list_customers(rows, db) ==
    IF db # "ok" THEN Read(Raise(DbError))
    ELSE LET ids == OrderById(DOMAIN rows)
         IN Read(Return(List([k \in 1..Len(ids) |-> CustomerDict(ids[k], rows[ids[k]])])))

get_customer(customer_id, rows, db) ==
    IF db # "ok" \/ ~IsNum(customer_id) THEN Read(Raise(DbError))
    ELSE IF RowsMatching(customer_id, rows) = {} THEN Read(Return(None))
    ELSE LET i == CHOOSE i \in RowsMatching(customer_id, rows) : TRUE
         IN Read(Return(CustomerDict(i, rows[i])))

\* delete_customer whose DELETE stays in effect when the commit fails (a
\* faulty variant, against which C13 is tested)
delete_customer_unrolled(customer_id, rows, seq, db) ==
    IF ~IsNum(customer_id) THEN Failed(DbError, rows, seq, <<"connect", "DELETE", "rollback", "close">>)
    ELSE IF db # "ok"
    THEN Failed(DbError, Delete(rows, RowsMatching(customer_id, rows)), seq,
                <<"connect", "DELETE", "close">>)
    ELSE Done(Cardinality(RowsMatching(customer_id, rows)),
              Delete(rows, RowsMatching(customer_id, rows)), seq, <<"connect", "DELETE", "commit", "close">>)

delete_customer(customer_id, rows, seq, db) ==
    IF db # "ok" \/ ~IsNum(customer_id) THEN Failed(DbError, rows, seq, <<"connect", "DELETE", "rollback", "close">>)
    ELSE Done(Cardinality(RowsMatching(customer_id, rows)),
              Delete(rows, RowsMatching(customer_id, rows)), seq, <<"connect", "DELETE", "commit", "close">>)

update_customer(customer_id, name, email, rows, seq, db) ==
    IF ~Truthy(name) /\ ~Truthy(email) THEN Done(0, rows, seq, <<>>)
    ELSE IF db # "ok" \/ ~IsNum(customer_id) THEN Failed(DbError, rows, seq, <<"connect", "UPDATE", "rollback", "close">>)
    ELSE Done(Cardinality(RowsMatching(customer_id, rows)),
              [j \in DOMAIN rows |->
                  IF j \in RowsMatching(customer_id, rows)
                  THEN [name  |-> IF name # None THEN name ELSE rows[j].name,
                        email |-> IF email # None THEN email ELSE rows[j].email]
                  ELSE rows[j]],
              seq, <<"connect", "UPDATE", "commit", "close">>)

\* process_customer_command from `intent = parsed.get("intent")` on
CustomerIntent(parsed, rows, seq, db) ==
    LET same(env) == Outcome(env, rows, seq, <<>>)
        read(env, calls) == Outcome(env, rows, seq, calls)
        intent == Get(parsed, "intent", None)
        params == Get(parsed, "parameters", EmptyDict)
        cust_id == Get(params, "id", None)
        name == Get(params, "name", IF intent = Str("add_customer") THEN EmptyStr ELSE None)
        email == Get(params, "email", None)
    IN
    CASE intent = Str("list_customers") ->
            LET r == list_customers(rows, db)
            IN IF r.exc THEN read(CommandFailed(r.msg), r.calls)
               ELSE read(SuccessEnv("list_customers",
                                    <<Ch("Found "), [n |-> 1000 * Len(r.val.elems)],
                                      Ch(" customer(s)")>>,
                                    <<Item("customers", r.val),
                                      Item("count", Whole(Len(r.val.elems)))>>),
                         r.calls)
      [] intent \notin {Str("add_customer"), Str("get_customer"), Str("delete_customer"),
                        Str("update_customer"), Str("list_customers")} ->
            same(ErrorEnv("unknown", <<Ch("Command not recognized")>>))
      [] OTHER ->
    IF ~IsDict(params) THEN same(CommandFailed(<<Ch("AttributeError")>>))
    ELSE
    CASE intent = Str("add_customer") ->
            LET r == add_customer(Strip(name), email, rows, seq, db)
            IN IF ~IsStr(name) THEN same(CommandFailed(<<Ch("AttributeError")>>))
               ELSE IF ~Truthy(Strip(name))
               THEN same(CommandFailed(<<Ch("Customer name missing")>>))
               ELSE IF r.exc THEN Outcome(CommandFailed(r.msg), r.rows, r.seq, r.calls)
               ELSE Outcome(SuccessEnv("add_customer",
                                       <<Ch("Customer \"")>> \o Strip(name).s
                                       \o <<Ch("\" added")>>,
                                       <<Item("customer",
                                              Dict(<<Item("id", r.val),
                                                     Item("name", Strip(name)),
                                                     Item("email", email)>>))>>),
                            r.rows, r.seq, r.calls)
      [] intent = Str("get_customer") ->
            LET r == get_customer(cust_id, rows, db)
            IN IF ~Truthy(cust_id) THEN same(CommandFailed(<<Ch("Customer ID missing")>>))
               ELSE IF r.exc THEN read(CommandFailed(r.msg), r.calls)
               ELSE IF Truthy(r.val)
               THEN read(SuccessEnv("get_customer",
                                    <<Ch("Customer ")>> \o Fmt(cust_id) \o <<Ch(" found")>>,
                                    <<Item("customer", r.val)>>), r.calls)
               ELSE read(ErrorEnv("get_customer",
                                  <<Ch("No customer found with ID ")>> \o Fmt(cust_id)), r.calls)
      [] intent = Str("delete_customer") ->
            LET r == delete_customer(cust_id, rows, seq, db)
            IN IF ~Truthy(cust_id) THEN same(CommandFailed(<<Ch("Customer ID missing")>>))
               ELSE IF r.exc THEN Outcome(CommandFailed(r.msg), r.rows, r.seq, r.calls)
               ELSE IF r.val # 0
               THEN Outcome(SuccessEnv("delete_customer",
                                       <<Ch("Customer with ID ")>> \o Fmt(cust_id)
                                       \o <<Ch(" deleted")>>, <<>>),
                            r.rows, seq, r.calls)
               ELSE Outcome(ErrorEnv("delete_customer",
                                  <<Ch("No customer found with ID ")>> \o Fmt(cust_id)), r.rows, r.seq, r.calls)
      [] intent = Str("update_customer") ->
            LET r == update_customer(cust_id, name, email, rows, seq, db)
            IN IF ~Truthy(cust_id) THEN same(CommandFailed(<<Ch("Customer ID missing")>>))
               ELSE IF r.exc THEN Outcome(CommandFailed(r.msg), r.rows, r.seq, r.calls)
               ELSE IF r.val # 0
               THEN Outcome(SuccessEnv("update_customer",
                                       <<Ch("Customer with ID ")>> \o Fmt(cust_id)
                                       \o <<Ch(" updated")>>, <<>>),
                            r.rows, seq, r.calls)
               ELSE Outcome(ErrorEnv("update_customer",
                                  <<Ch("No customer found with ID ")>> \o Fmt(cust_id)
                                  \o <<Ch(" or nothing to update")>>), r.rows, r.seq, r.calls)

\* process_customer_command from `parsed = json.loads(result)` on
CustomerParsed(parsed, rows, seq, db) ==
    IF ~parsed.ok THEN Outcome(CommandFailed(<<Ch("JSONDecodeError")>>), rows, seq, <<>>)
    ELSE IF ~IsDict(parsed.val)
    THEN Outcome(CommandFailed(<<Ch("AttributeError")>>), rows, seq, <<>>)
    ELSE CustomerIntent(parsed.val, rows, seq, db)

\* process_customer_command: reply is the classifier's answer to the command
process_customer_command(reply, rows, seq, db) ==
    IF reply.exc THEN Outcome(CommandFailed(<<Ch("classifier error")>>), rows, seq, <<>>)
    ELSE CustomerParsed(Loads(Strip(reply.content)), rows, seq, db)

\* ---------------------------------------------------------- ProductAgent
\* float(x): a number, or a str holding one numeral or "nan"; anything else
\* raises
PyFloat(v) ==
    IF IsNum(v) THEN Return(v)
    ELSE IF IsStr(v) /\ Len(Strip(v).s) = 1 /\ "n" \in DOMAIN Strip(v).s[1]
    THEN Return(Num(Strip(v).s[1].n))
    ELSE IF IsStr(v) /\ Strip(v).s = <<Ch("nan")>> THEN Return(NaN)
    ELSE Raise(<<Ch("could not convert to float")>>)

\* one row as the dict that list_products and get_product format
ProductDict(i, r) ==
    Dict(<<Item("id", Whole(i)), Item("name", r.name),
           Item("description", r.description), Item("price", FromDecimal(r.price)),
           Item("created_at", Str("<iso-8601>"))>>)

add_product(name, price, description, rows, seq, db) ==
    IF db # "ok" \/ ~DecimalFits(price) THEN Failed(DbError, rows, seq, <<"connect", "INSERT", "rollback", "close">>)
    ELSE Done(Whole(seq + 1),
              Insert(rows, seq + 1, [name |-> name, description |-> description,
                                     price |-> PgDecimal(price)]),
              seq + 1, <<"connect", "INSERT", "commit", "close">>)

list_products(rows, db) ==
    IF db # "ok" THEN Read(Raise(DbError))
    ELSE LET ids == OrderById(DOMAIN rows)
         IN Read(Return(List([k \in 1..Len(ids) |-> ProductDict(ids[k], rows[ids[k]])])))

get_product(product_id, rows, db) ==
    IF db # "ok" \/ ~IsNum(product_id) THEN Read(Raise(DbError))
    ELSE IF RowsMatching(product_id, rows) = {} THEN Read(Return(None))
    ELSE LET i == CHOOSE i \in RowsMatching(product_id, rows) : TRUE
         IN Read(Return(ProductDict(i, rows[i])))

delete_product(product_id, rows, seq, db) ==
    IF db # "ok" \/ ~IsNum(product_id) THEN Failed(DbError, rows, seq, <<"connect", "DELETE", "rollback", "close">>)
    ELSE Done(Cardinality(RowsMatching(product_id, rows)),
              Delete(rows, RowsMatching(product_id, rows)), seq, <<"connect", "DELETE", "commit", "close">>)

update_product(product_id, name, description, price, rows, seq, db) ==
    IF name = None /\ description = None /\ price = None THEN Done(0, rows, seq, <<>>)
    ELSE IF db # "ok" \/ ~IsNum(product_id) \/ (price # None /\ ~DecimalFits(price))
    THEN Failed(DbError, rows, seq, <<"connect", "UPDATE", "rollback", "close">>)
    ELSE Done(Cardinality(RowsMatching(product_id, rows)),
              [j \in DOMAIN rows |->
                  IF j \in RowsMatching(product_id, rows)
                  THEN [name |-> IF name # None THEN name ELSE rows[j].name,
                        description |-> IF description # None THEN description
                                        ELSE rows[j].description,
                        price |-> IF price # None THEN PgDecimal(price) ELSE rows[j].price]
                  ELSE rows[j]],
              seq, <<"connect", "UPDATE", "commit", "close">>)

\* the price check of the add_product and update_product commands:
\* float(price), then `if price < 0: raise`, both inside one try whose handler
\* raises ValueError("Invalid price format")
CheckPrice(price) ==
    IF PyFloat(price).exc \/ (PyFloat(price).val # NaN /\ PyFloat(price).val.m < 0)
    THEN Raise(<<Ch("Invalid price format")>>)
    ELSE PyFloat(price)

\* f"{x:.2f}": the amount to the cent
Money(v) == IF v = NaN THEN <<Ch("nan")>> ELSE <<[n |-> RoundDiv(v.m, 10) * 10]>>

\* process_product_command from `intent = parsed.get("intent")` on
ProductIntent(parsed, rows, seq, db) ==
    LET same(env) == Outcome(env, rows, seq, <<>>)
        read(env, calls) == Outcome(env, rows, seq, calls)
        intent == Get(parsed, "intent", None)
        params == Get(parsed, "parameters", EmptyDict)
        prod_id == Get(params, "id", None)
        name == Get(params, "name", IF intent = Str("add_product") THEN EmptyStr ELSE None)
        description == Get(params, "description", None)
        price == Get(params, "price", None)
        chk == IF price = None THEN Return(None) ELSE CheckPrice(price)
    IN
    CASE intent = Str("list_products") ->
            LET r == list_products(rows, db)
            IN IF r.exc THEN read(CommandFailed(r.msg), r.calls)
               ELSE read(SuccessEnv("list_products",
                                    <<Ch("Found "), [n |-> 1000 * Len(r.val.elems)],
                                      Ch(" product(s)")>>,
                                    <<Item("products", r.val),
                                      Item("count", Whole(Len(r.val.elems)))>>),
                         r.calls)
      [] intent \notin {Str("add_product"), Str("get_product"), Str("delete_product"),
                        Str("update_product"), Str("list_products")} ->
            same(ErrorEnv("unknown", <<Ch("Command not recognized")>>))
      [] OTHER ->
    IF ~IsDict(params) THEN same(CommandFailed(<<Ch("AttributeError")>>))
    ELSE
    CASE intent = Str("add_product") ->
            LET r == add_product(Strip(name), chk.val, description, rows, seq, db)
            IN IF ~IsStr(name) THEN same(CommandFailed(<<Ch("AttributeError")>>))
               ELSE IF ~Truthy(Strip(name))
               THEN same(CommandFailed(<<Ch("Product name missing")>>))
               ELSE IF price = None
               THEN same(CommandFailed(<<Ch("Product price missing")>>))
               ELSE IF chk.exc THEN same(CommandFailed(chk.msg))
               ELSE IF r.exc THEN Outcome(CommandFailed(r.msg), r.rows, r.seq, r.calls)
               ELSE Outcome(SuccessEnv("add_product",
                                       <<Ch("Product \"")>> \o Strip(name).s
                                       \o <<Ch("\" added with price $")>> \o Money(chk.val),
                                       <<Item("product",
                                              Dict(<<Item("id", r.val),
                                                     Item("name", Strip(name)),
                                                     Item("description", description),
                                                     Item("price", chk.val)>>))>>),
                            r.rows, r.seq, r.calls)
      [] intent = Str("get_product") ->
            LET r == get_product(prod_id, rows, db)
            IN IF ~Truthy(prod_id) THEN same(CommandFailed(<<Ch("Product ID missing")>>))
               ELSE IF r.exc THEN read(CommandFailed(r.msg), r.calls)
               ELSE IF Truthy(r.val)
               THEN read(SuccessEnv("get_product",
                                    <<Ch("Product ")>> \o Fmt(prod_id) \o <<Ch(" found")>>,
                                    <<Item("product", r.val)>>), r.calls)
               ELSE read(ErrorEnv("get_product",
                                  <<Ch("No product found with ID ")>> \o Fmt(prod_id)), r.calls)
      [] intent = Str("delete_product") ->
            LET r == delete_product(prod_id, rows, seq, db)
            IN IF ~Truthy(prod_id) THEN same(CommandFailed(<<Ch("Product ID missing")>>))
               ELSE IF r.exc THEN Outcome(CommandFailed(r.msg), r.rows, r.seq, r.calls)
               ELSE IF r.val # 0
               THEN Outcome(SuccessEnv("delete_product",
                                       <<Ch("Product with ID ")>> \o Fmt(prod_id)
                                       \o <<Ch(" deleted")>>, <<>>),
                            r.rows, seq, r.calls)
               ELSE Outcome(ErrorEnv("delete_product",
                                  <<Ch("No product found with ID ")>> \o Fmt(prod_id)), r.rows, r.seq, r.calls)
      [] intent = Str("update_product") ->
            LET r == update_product(prod_id, name, description, chk.val, rows, seq, db)
            IN IF ~Truthy(prod_id) THEN same(CommandFailed(<<Ch("Product ID missing")>>))
               ELSE IF chk.exc THEN same(CommandFailed(chk.msg))
               ELSE IF r.exc THEN Outcome(CommandFailed(r.msg), r.rows, r.seq, r.calls)
               ELSE IF r.val # 0
               THEN Outcome(SuccessEnv("update_product",
                                       <<Ch("Product with ID ")>> \o Fmt(prod_id)
                                       \o <<Ch(" updated")>>, <<>>),
                            r.rows, seq, r.calls)
               ELSE Outcome(ErrorEnv("update_product",
                                  <<Ch("No product found with ID ")>> \o Fmt(prod_id)
                                  \o <<Ch(" or nothing to update")>>), r.rows, r.seq, r.calls)

\* process_product_command from `parsed = json.loads(result)` on
ProductParsed(parsed, rows, seq, db) ==
    IF ~parsed.ok THEN Outcome(CommandFailed(<<Ch("JSONDecodeError")>>), rows, seq, <<>>)
    ELSE IF ~IsDict(parsed.val)
    THEN Outcome(CommandFailed(<<Ch("AttributeError")>>), rows, seq, <<>>)
    ELSE ProductIntent(parsed.val, rows, seq, db)

\* process_product_command: reply is the classifier's answer to the command
process_product_command(reply, rows, seq, db) ==
    IF reply.exc THEN Outcome(CommandFailed(<<Ch("classifier error")>>), rows, seq, <<>>)
    ELSE ProductParsed(Loads(Strip(reply.content)), rows, seq, db)

\* ----------------------------------------------------------- RouterAgent
AgentNames == {"ProductAgent", "CustomerAgent", "SalesAgent"}

\* get_agent_from_llm matching the names without regard to case (a faulty
\* variant, against which C11 is tested)
get_agent_from_llm_lenient(reply) ==
    IF reply.exc THEN ""
    ELSE IF \E a \in AgentNames : Strip(reply.content) = Str(a)
    THEN CHOOSE a \in AgentNames : Strip(reply.content) = Str(a)
    ELSE IF Strip(reply.content) = Str("customeragent") THEN "CustomerAgent"
    ELSE ""

\* get_agent_from_llm: reply is the classifier's answer; "" stands for None
get_agent_from_llm(reply) ==
    IF reply.exc THEN ""
    ELSE IF \E a \in AgentNames : Strip(reply.content) = Str(a)
    THEN CHOOSE a \in AgentNames : Strip(reply.content) = Str(a)
    ELSE ""

\* the error dict of route_and_execute
RouterError(msg, command) ==
    Dict(<<Item("status", Error), Item("message", PyStr(msg)), Item("command", command)>>)

\* route_and_execute reporting a failed ask without the agent's name (a faulty
\* variant, against which C12 is tested)
route_and_execute_anonymous(command, reply, network, asks) ==
    LET agent_name == get_agent_from_llm(reply)
    IN IF agent_name = ""
       THEN RouterError(<<Ch("No suitable agent found for this command")>>, command)
       ELSE IF agent_name \notin network
       THEN RouterError(<<Ch("Agent "), Ch(agent_name), Ch(" not available")>>, command)
       ELSE IF asks[agent_name].exc
       THEN RouterError(<<Ch("Error communicating with agent: ")>>
                        \o asks[agent_name].msg, command)
       ELSE Dict(<<Item("status", Success), Item("routed_to", Str(agent_name)),
                   Item("command", command), Item("response", asks[agent_name].val)>>)

\* route_and_execute taking over the status of the agent's envelope (a faulty
\* variant, against which C30 is tested)
route_and_execute_by_nested_status(command, reply, network, asks) ==
    LET agent_name == get_agent_from_llm(reply)
        nested == IF IsStr(asks[agent_name].val) THEN Loads(asks[agent_name].val).val
                  ELSE asks[agent_name].val
    IN IF agent_name = ""
       THEN RouterError(<<Ch("No suitable agent found for this command")>>, command)
       ELSE IF agent_name \notin network
       THEN RouterError(<<Ch("Agent "), Ch(agent_name), Ch(" not available")>>, command)
       ELSE IF asks[agent_name].exc
       THEN RouterError(<<Ch("Error communicating with "), Ch(agent_name), Ch(": ")>>
                        \o asks[agent_name].msg, command)
       ELSE Dict(<<Item("status", Get(nested, "status", Success)),
                   Item("routed_to", Str(agent_name)),
                   Item("command", command), Item("response", asks[agent_name].val)>>)

\* route_and_execute: network is the set of agents in the directory, asks[a]
\* the outcome of agent a's client.ask(command)
route_and_execute(command, reply, network, asks) ==
    LET agent_name == get_agent_from_llm(reply)
    IN IF agent_name = ""
       THEN RouterError(<<Ch("No suitable agent found for this command")>>, command)
       ELSE IF agent_name \notin network
       THEN RouterError(<<Ch("Agent "), Ch(agent_name), Ch(" not available")>>, command)
       ELSE IF asks[agent_name].exc
       THEN RouterError(<<Ch("Error communicating with "), Ch(agent_name), Ch(": ")>>
                        \o asks[agent_name].msg, command)
       ELSE Dict(<<Item("status", Success), Item("routed_to", Str(agent_name)),
                   Item("command", command), Item("response", asks[agent_name].val)>>)

\* the agent whose ask route_and_execute calls, "" when it calls none
Forwarded(reply, network) ==
    IF get_agent_from_llm(reply) \in network THEN get_agent_from_llm(reply) ELSE ""

\* ------------------------------------------------- transport (python_a2a)
\* the shape in which a reply crosses one hop: JSON text, the decoded
\* structure, JSON text cut short, or a body that is not JSON at all
WireForms == {"str", "dict", "cut", "bad"}

Wire(v, form) ==
    CASE form = "str"  -> PyStr(Dumps(v))
      [] form = "dict" -> v
      [] form = "cut"  -> PyStr(SubSeq(Dumps(v), 1, Len(Dumps(v)) - 1))
      [] form = "bad"  -> Str("<html>502 Bad Gateway</html>")

\* agent_client.ask(command) as the Router sees it: the agent cannot be
\* reached, or handles the command but answers too late, or answers with the
\* envelope env of its command processor
AgentAsk(up, form, env) ==
    IF up = "refused" THEN Raise(<<Ch("connection refused")>>)
    ELSE IF up = "timeout" THEN Raise(<<Ch("timed out")>>)
    ELSE Return(Wire(env, form))

\* what the entity agent's classifier makes of a lookup command
LookupIntent(agent, command) ==
    LET id == IF Len(command.s) = 2 /\ "n" \in DOMAIN command.s[2]
              THEN Num(command.s[2].n) ELSE None
    IN IF agent = "CustomerAgent" /\ command.s[1] = Ch("get customer ")
       THEN IntentReply("get_customer", <<Item("id", id)>>)
       ELSE IF agent = "ProductAgent" /\ command.s[1] = Ch("get product ")
       THEN IntentReply("get_product", <<Item("id", id)>>)
       ELSE IntentReply("unsupported", <<>>)

\* one way a lookup through the Router can go: what the Router's classifier
\* replies (the agent that owns the entity, the other entity agent, None, or a
\* failure), whether the target agent answers, and the wire form of each hop
\* (outer = "down": the Router itself cannot be reached)
AllScenarios == [route : {"owner", "other", "None", "error"}, agent : {"up", "down"},
                 inner : WireForms, outer : WireForms \cup {"down"}]
Healthy == [route |-> "owner", agent |-> "up", inner |-> "str", outer |-> "str"]

\* the Router classifier's reply in scenario sc
RouteReply(sc, command) ==
    LET customer == command.s[1] = Ch("get customer ")
    IN CASE sc.route = "owner" ->
               [exc |-> FALSE,
                content |-> Str(IF customer THEN "CustomerAgent" ELSE "ProductAgent")]
         [] sc.route = "other" ->
               [exc |-> FALSE,
                content |-> Str(IF customer THEN "ProductAgent" ELSE "CustomerAgent")]
         [] sc.route = "None"  -> [exc |-> FALSE, content |-> Str("None")]
         [] sc.route = "error" -> [exc |-> TRUE, content |-> EmptyStr]

\* router_client.ask(command) as seen by the SalesAgent
RouterAsk(command, sc, customers, products) ==
    IF sc.outer = "down" THEN Raise(<<Ch("connection refused")>>)
    ELSE Return(Wire(
            route_and_execute(
               command, RouteReply(sc, command), AgentNames,
               [a \in {"CustomerAgent", "ProductAgent"} |->
                  IF sc.agent # "up" THEN Raise(<<Ch("connection refused")>>)
                  ELSE IF a = "CustomerAgent"
                  THEN Return(Wire(process_customer_command(
                                       LookupIntent(a, command), customers, 0, "ok").env,
                                   sc.inner))
                  ELSE Return(Wire(process_product_command(
                                       LookupIntent(a, command), products, 0, "ok").env,
                                   sc.inner))]),
            sc.outer))

\* ------------------------------------------------------------ SalesAgent
\* f"get customer {customer_id}" and f"get product {product_id}"
LookupCommand(entity, id) == PyStr(<<Ch("get " \o entity \o " ")>> \o Fmt(id))

\* parse_agent_response from `agent_response_str = router_response.get(...)`
\* on; x[:100] raises unless x is a str or a list
ResponseField(agent_response_str) ==
    IF agent_response_str.t \notin {"str", "list"} THEN Raise(<<Ch("TypeError")>>)
    ELSE IF ~IsStr(agent_response_str) THEN Return(agent_response_str)
    ELSE IF Loads(agent_response_str).ok THEN Return(Loads(agent_response_str).val)
    ELSE Return(None)

\* parse_agent_response once router_response is no str any more
RouterEnvelope(outer) ==
    IF ~outer.ok THEN Return(None)
    ELSE IF IsDict(outer.val) /\ Get(outer.val, "status", None) = Success
    THEN ResponseField(Get(outer.val, "response", PyStr(Dumps(EmptyDict))))
    ELSE Return(None)

\* `except Exception: return <default>`
Except(r, default) == IF r.exc THEN Return(default) ELSE r

\* parse_agent_response, with its `except Exception: return None`
parse_agent_response(router_response) ==
    Except(RouterEnvelope(IF IsStr(router_response) THEN Loads(router_response)
                          ELSE [ok |-> TRUE, val |-> router_response]),
           None)

\* get_customer_name after parse_agent_response; x.get raises unless x is a dict
CustomerNameIn(agent_response) ==
    IF ~Truthy(agent_response) THEN Return(None)
    ELSE IF ~IsDict(agent_response) THEN Raise(<<Ch("AttributeError")>>)
    ELSE IF Get(agent_response, "status", None) # Success THEN Return(None)
    ELSE IF ~IsDict(Get(agent_response, "customer", EmptyDict))
    THEN Raise(<<Ch("AttributeError")>>)
    ELSE Return(Get(Get(agent_response, "customer", EmptyDict), "name", None))

\* get_customer_name after router_client.ask
CustomerNameFrom(router_response) ==
    IF router_response.exc THEN Raise(router_response.msg)
    ELSE CustomerNameIn(parse_agent_response(router_response.val).val)

\* get_customer_name without its except arm (a faulty variant, against which
\* C7 is tested)
get_customer_name_unguarded(customer_id, sc, customers, products) ==
    CustomerNameFrom(RouterAsk(LookupCommand("customer", customer_id),
                               sc, customers, products))

\* get_customer_name, with its `except Exception: return None`
get_customer_name(customer_id, sc, customers, products) ==
    Except(CustomerNameFrom(RouterAsk(LookupCommand("customer", customer_id),
                                      sc, customers, products)),
           None)

\* the pair (product_name, product_price) is the record [name, price]
NoDetails == [name |-> None, price |-> None]

\* get_product_details after parse_agent_response
ProductDetailsIn(agent_response) ==
    IF ~Truthy(agent_response) THEN Return(NoDetails)
    ELSE IF ~IsDict(agent_response) THEN Raise(<<Ch("AttributeError")>>)
    ELSE IF Get(agent_response, "status", None) # Success THEN Return(NoDetails)
    ELSE LET product_data == Get(agent_response, "product", EmptyDict)
         IN IF ~IsDict(product_data) THEN Raise(<<Ch("AttributeError")>>)
            ELSE IF PyFloat(Get(product_data, "price", Num(0))).exc
            THEN Raise(<<Ch("could not convert to float")>>)
            ELSE Return([name |-> Get(product_data, "name", None),
                         price |-> PyFloat(Get(product_data, "price", Num(0))).val])

\* get_product_details after router_client.ask
ProductDetailsFrom(router_response) ==
    IF router_response.exc THEN Raise(router_response.msg)
    ELSE ProductDetailsIn(parse_agent_response(router_response.val).val)

\* get_product_details, with its `except Exception: return None, None`
get_product_details(product_id, sc, customers, products) ==
    Except(ProductDetailsFrom(RouterAsk(LookupCommand("product", product_id),
                                        sc, customers, products)),
           NoDetails)

\* int(x): a number is truncated, a str must hold one whole numeral
PyIntConv(v) ==
    IF IsNum(v) THEN Return(PyInt(v))
    ELSE IF IsStr(v) /\ Len(Strip(v).s) = 1 /\ "n" \in DOMAIN Strip(v).s[1]
            /\ Strip(v).s[1].n % 1000 = 0
    THEN Return(Strip(v).s[1].n \div 1000)
    ELSE Raise(<<Ch("invalid literal for int()")>>)

\* a parameter assigned to an INTEGER column: a number is rounded, a str must
\* hold one whole numeral, anything else is rejected by the store
SqlInteger(v) ==
    IF IsNum(v) THEN Return(PgInteger(v))
    ELSE IF IsStr(v) /\ Len(v.s) = 1 /\ "n" \in DOMAIN v.s[1] /\ v.s[1].n % 1000 = 0
    THEN Return(v.s[1].n \div 1000)
    ELSE Raise(DbError)

\* a parameter assigned to a VARCHAR column
SqlText(v) ==
    IF IsStr(v) THEN Return(v)
    ELSE IF IsNum(v) THEN Return(PyStr(Fmt(v)))
    ELSE Raise(DbError)

\* float(product_price) * int(quantity)
Times(price, n) == IF price = NaN THEN NaN ELSE Num(price.m * n)

\* the row make_sale and update_sale write: each parameter converted to the
\* type of its column, or the store's refusal
SaleRow(customer_id, customer_name, product_id, product_name, quantity, price, total) ==
    IF SqlInteger(customer_id).exc \/ SqlInteger(product_id).exc
       \/ SqlInteger(quantity).exc \/ SqlText(customer_name).exc
       \/ SqlText(product_name).exc \/ ~DecimalFits(price) \/ ~DecimalFits(total)
    THEN Raise(DbError)
    ELSE Return([customer_id |-> SqlInteger(customer_id).val,
                 customer_name |-> SqlText(customer_name).val,
                 product_id |-> SqlInteger(product_id).val,
                 product_name |-> SqlText(product_name).val,
                 quantity |-> SqlInteger(quantity).val,
                 price |-> PgDecimal(price), total_price |-> PgDecimal(total)])

\* the two except arms of make_sale; a is the triple of its arguments
SaleFailed(kind, msg, a, rows, seq, calls) ==
    Failed((IF kind = "ValueError" THEN <<Ch("Sale creation failed - ")>>
            ELSE <<Ch("Unexpected error in make_sale: ")>>)
           \o msg \o <<Ch(" [customer_id=")>> \o Fmt(a.customer_id)
           \o <<Ch(", product_id=")>> \o Fmt(a.product_id)
           \o <<Ch(", quantity=")>> \o Fmt(a.quantity) \o <<Ch("]")>>,
           rows, seq, calls)

\* make_sale whose INSERT stays in effect when the commit fails (a faulty
\* variant, against which C19 is tested)
SellUnrolled(customer_name, details, a, rows, seq, db) ==
    LET total_price == Times(details.price, PyInt(a.quantity))
        row == SaleRow(a.customer_id, customer_name, a.product_id, details.name,
                       a.quantity, details.price, total_price)
    IN
    IF ~Truthy(customer_name)
    THEN SaleFailed("ValueError", <<Ch("Customer not found: No customer exists with ID ")>>
                                  \o Fmt(a.customer_id), a, rows, seq,
                    <<"get_customer_name">>)
    ELSE IF ~Truthy(details.name) \/ details.price = None
    THEN SaleFailed("ValueError", <<Ch("Product not found: No product exists with ID ")>>
                                  \o Fmt(a.product_id), a, rows, seq,
                    <<"get_customer_name", "get_product_details">>)
    ELSE IF db = "down"
    THEN SaleFailed("Exception", DbError, a, rows, seq,
                    <<"get_customer_name", "get_product_details">>)
    ELSE IF row.exc
    THEN SaleFailed("ValueError", <<Ch("Database error during sale insertion: ")>> \o DbError,
                    a, rows, seq,
                    <<"get_customer_name", "get_product_details", "connect", "INSERT",
                      "rollback", "close">>)
    ELSE IF db # "ok"
    THEN SaleFailed("ValueError", <<Ch("Database error during sale insertion: ")>> \o DbError,
                    a, Insert(rows, seq + 1, row.val), seq + 1,
                    <<"get_customer_name", "get_product_details", "connect", "INSERT",
                      "rollback", "close">>)
    ELSE Done([sale_id |-> Whole(seq + 1), customer_name |-> customer_name,
               product_name |-> details.name, price |-> details.price,
               total_price |-> total_price],
              Insert(rows, seq + 1, row.val), seq + 1,
              <<"get_customer_name", "get_product_details", "connect", "INSERT",
                "commit", "close">>)

\* make_sale trying its INSERT a second time when the first attempt fails (a
\* faulty variant, against which C26 is tested)
SellRetrying(customer_name, details, a, rows, seq, db) ==
    LET total_price == Times(details.price, PyInt(a.quantity))
        row == SaleRow(a.customer_id, customer_name, a.product_id, details.name,
                       a.quantity, details.price, total_price)
    IN
    IF ~Truthy(customer_name)
    THEN SaleFailed("ValueError", <<Ch("Customer not found: No customer exists with ID ")>>
                                  \o Fmt(a.customer_id), a, rows, seq,
                    <<"get_customer_name">>)
    ELSE IF ~Truthy(details.name) \/ details.price = None
    THEN SaleFailed("ValueError", <<Ch("Product not found: No product exists with ID ")>>
                                  \o Fmt(a.product_id), a, rows, seq,
                    <<"get_customer_name", "get_product_details">>)
    ELSE IF db = "down"
    THEN SaleFailed("Exception", DbError, a, rows, seq,
                    <<"get_customer_name", "get_product_details">>)
    ELSE IF row.exc
    THEN SaleFailed("ValueError", <<Ch("Database error during sale insertion: ")>> \o DbError,
                    a, rows, seq,
                    <<"get_customer_name", "get_product_details", "connect", "INSERT",
                      "rollback", "close">>)
    ELSE IF db # "ok"
    THEN Done([sale_id |-> Whole(seq + 2), customer_name |-> customer_name,
               product_name |-> details.name, price |-> details.price,
               total_price |-> total_price],
              Insert(rows, seq + 2, row.val), seq + 2,
              <<"get_customer_name", "get_product_details", "connect", "INSERT",
                "rollback", "INSERT", "commit", "close">>)
    ELSE Done([sale_id |-> Whole(seq + 1), customer_name |-> customer_name,
               product_name |-> details.name, price |-> details.price,
               total_price |-> total_price],
              Insert(rows, seq + 1, row.val), seq + 1,
              <<"get_customer_name", "get_product_details", "connect", "INSERT",
                "commit", "close">>)

\* make_sale after its argument checks, with the outcomes of its two lookups
\* (the product is looked up only when the customer was found)
Sell(customer_name, details, a, rows, seq, db) ==
    LET total_price == Times(details.price, PyInt(a.quantity))
        row == SaleRow(a.customer_id, customer_name, a.product_id, details.name,
                       a.quantity, details.price, total_price)
    IN
    IF ~Truthy(customer_name)
    THEN SaleFailed("ValueError", <<Ch("Customer not found: No customer exists with ID ")>>
                                  \o Fmt(a.customer_id), a, rows, seq,
                    <<"get_customer_name">>)
    ELSE IF ~Truthy(details.name) \/ details.price = None
    THEN SaleFailed("ValueError", <<Ch("Product not found: No product exists with ID ")>>
                                  \o Fmt(a.product_id), a, rows, seq,
                    <<"get_customer_name", "get_product_details">>)
    ELSE IF db = "down"
    THEN SaleFailed("Exception", DbError, a, rows, seq,
                    <<"get_customer_name", "get_product_details">>)
    ELSE IF db # "ok" \/ row.exc
    THEN SaleFailed("ValueError", <<Ch("Database error during sale insertion: ")>> \o DbError,
                    a, rows, seq,
                    <<"get_customer_name", "get_product_details", "connect", "INSERT",
                      "rollback", "close">>)
    ELSE Done([sale_id |-> Whole(seq + 1), customer_name |-> customer_name,
               product_name |-> details.name, price |-> details.price,
               total_price |-> total_price],
              Insert(rows, seq + 1, row.val), seq + 1,
              <<"get_customer_name", "get_product_details", "connect", "INSERT",
                "commit", "close">>)

\* make_sale checking the quantity only after its two lookups (a faulty
\* variant, against which C25 is tested)
make_sale_checking_late(customer_id, product_id, quantity, sc1, sc2, rows, seq, db, customers, products) ==
    LET a == [customer_id |-> customer_id, product_id |-> product_id,
              quantity |-> quantity]
    IN
    IF ~Truthy(customer_id)
    THEN SaleFailed("ValueError",
                    <<Ch("Customer ID is required and cannot be None or empty")>>,
                    a, rows, seq, <<>>)
    ELSE IF ~Truthy(product_id)
    THEN SaleFailed("ValueError",
                    <<Ch("Product ID is required and cannot be None or empty")>>,
                    a, rows, seq, <<>>)
    ELSE IF ~Truthy(quantity)
    THEN SaleFailed("ValueError", <<Ch("Quantity must be a positive number, got: ")>>
                                  \o Fmt(quantity), a, rows, seq,
                    <<"get_customer_name", "get_product_details">>)
    ELSE IF ~IsNum(quantity)
    THEN SaleFailed("Exception", <<Ch("TypeError")>>, a, rows, seq,
                    <<"get_customer_name", "get_product_details">>)
    ELSE IF quantity.m <= 0
    THEN SaleFailed("ValueError", <<Ch("Quantity must be a positive number, got: ")>>
                                  \o Fmt(quantity), a, rows, seq,
                    <<"get_customer_name", "get_product_details">>)
    ELSE Sell(get_customer_name(customer_id, sc1, customers, products).val,
              get_product_details(product_id, sc2, customers, products).val,
              a, rows, seq, db)

\* make_sale: sc1 and sc2 are the ways its two Router lookups go
make_sale(customer_id, product_id, quantity, sc1, sc2, rows, seq, db, customers, products) ==
    LET a == [customer_id |-> customer_id, product_id |-> product_id,
              quantity |-> quantity]
    IN
    IF ~Truthy(customer_id)
    THEN SaleFailed("ValueError",
                    <<Ch("Customer ID is required and cannot be None or empty")>>,
                    a, rows, seq, <<>>)
    ELSE IF ~Truthy(product_id)
    THEN SaleFailed("ValueError",
                    <<Ch("Product ID is required and cannot be None or empty")>>,
                    a, rows, seq, <<>>)
    ELSE IF ~Truthy(quantity)
    THEN SaleFailed("ValueError", <<Ch("Quantity must be a positive number, got: ")>>
                                  \o Fmt(quantity), a, rows, seq, <<>>)
    ELSE IF ~IsNum(quantity)
    THEN SaleFailed("Exception", <<Ch("TypeError")>>, a, rows, seq, <<>>)
    ELSE IF quantity.m <= 0
    THEN SaleFailed("ValueError", <<Ch("Quantity must be a positive number, got: ")>>
                                  \o Fmt(quantity), a, rows, seq, <<>>)
    ELSE Sell(get_customer_name(customer_id, sc1, customers, products).val,
              get_product_details(product_id, sc2, customers, products).val,
              a, rows, seq, db)

\* one row as the dict that list_sales formats
SaleDict(i, r) ==
    Dict(<<Item("id", Whole(i)), Item("customer_id", Whole(r.customer_id)),
           Item("customer_name", r.customer_name),
           Item("product_id", Whole(r.product_id)),
           Item("product_name", r.product_name),
           Item("quantity", Whole(r.quantity)), Item("price", FromDecimal(r.price)),
           Item("total_price", FromDecimal(r.total_price)),
           Item("sale_time", Str("<iso-8601>"))>>)

list_sales(rows, db) ==
    IF db = "down" THEN [exc |-> TRUE, msg |-> DbError, val |-> None, calls |-> <<>>]
    ELSE IF db # "ok" THEN Read(Raise(DbError))
    ELSE LET ids == OrderById(DOMAIN rows)
         IN Read(Return(List([k \in 1..Len(ids) |-> SaleDict(ids[k], rows[ids[k]])])))

delete_sale(sale_id, rows, seq, db) ==
    IF db = "down" THEN Failed(DbError, rows, seq, <<>>)
    ELSE IF db # "ok" \/ ~IsNum(sale_id)
    THEN Failed(DbError, rows, seq, <<"connect", "DELETE", "rollback", "close">>)
    ELSE Done(Cardinality(RowsMatching(sale_id, rows)),
              Delete(rows, RowsMatching(sale_id, rows)), seq,
              <<"connect", "DELETE", "commit", "close">>)

\* update_sale writing the new quantity before it resolves the customer and
\* the product, and keeping it when that fails (a faulty variant, against
\* which C20 is tested)
RewriteQuantityFirst(new_customer_name, details, n, sale_id, rows, seq, db) ==
    LET looked == <<"connect", "SELECT", "get_customer_name", "get_product_details">>
        q == PyIntConv(n.quantity)
        row == SaleRow(n.customer_id, new_customer_name, n.product_id, details.name,
                       n.quantity, details.price, Times(details.price, q.val))
    IN
    IF ~Truthy(new_customer_name) \/ ~Truthy(details.name) \/ details.price = None
    THEN Failed(<<Ch("Invalid customer or product ID for update")>>,
                [j \in DOMAIN rows |->
                    IF j \in RowsMatching(sale_id, rows) /\ IsNum(n.quantity)
                    THEN [rows[j] EXCEPT !.quantity = PgInteger(n.quantity)]
                    ELSE rows[j]],
                seq, looked \o <<"UPDATE", "close">>)
    ELSE IF q.exc THEN Failed(q.msg, rows, seq, looked \o <<"rollback", "close">>)
    ELSE IF db # "ok" \/ row.exc
    THEN Failed(DbError, rows, seq, looked \o <<"UPDATE", "rollback", "close">>)
    ELSE Done(Cardinality(RowsMatching(sale_id, rows)),
              [j \in DOMAIN rows |->
                  IF j \in RowsMatching(sale_id, rows) THEN row.val ELSE rows[j]],
              seq, looked \o <<"UPDATE", "commit", "close">>)

\* update_sale once the row is fetched: n holds the new ids and quantity, the
\* first two arguments the outcomes of its two lookups
Rewrite(new_customer_name, details, n, sale_id, rows, seq, db) ==
    LET looked == <<"connect", "SELECT", "get_customer_name", "get_product_details">>
        q == PyIntConv(n.quantity)
        row == SaleRow(n.customer_id, new_customer_name, n.product_id, details.name,
                       n.quantity, details.price, Times(details.price, q.val))
    IN
    IF ~Truthy(new_customer_name) \/ ~Truthy(details.name) \/ details.price = None
    THEN Failed(<<Ch("Invalid customer or product ID for update")>>, rows, seq,
                looked \o <<"rollback", "close">>)
    ELSE IF q.exc THEN Failed(q.msg, rows, seq, looked \o <<"rollback", "close">>)
    ELSE IF db # "ok" \/ row.exc
    THEN Failed(DbError, rows, seq, looked \o <<"UPDATE", "rollback", "close">>)
    ELSE Done(Cardinality(RowsMatching(sale_id, rows)),
              [j \in DOMAIN rows |->
                  IF j \in RowsMatching(sale_id, rows) THEN row.val ELSE rows[j]],
              seq, looked \o <<"UPDATE", "commit", "close">>)

\* update_sale from `new_customer_id = ...` on: cur is the row fetched
Refresh(cur, sale_id, customer_id, product_id, quantity, sc1, sc2, rows, seq, db, customers, products) ==
    LET n == [customer_id |-> IF customer_id # None THEN customer_id
                              ELSE Whole(cur.customer_id),
              product_id  |-> IF product_id # None THEN product_id
                              ELSE Whole(cur.product_id),
              quantity    |-> IF quantity # None THEN quantity ELSE Whole(cur.quantity)]
    IN Rewrite(get_customer_name(n.customer_id, sc1, customers, products).val,
               get_product_details(n.product_id, sc2, customers, products).val,
               n, sale_id, rows, seq, db)

update_sale(sale_id, customer_id, product_id, quantity, sc1, sc2, rows, seq, db, customers, products) ==
    IF db = "down" THEN Failed(DbError, rows, seq, <<>>)
    ELSE IF ~IsNum(sale_id)
    THEN Failed(DbError, rows, seq, <<"connect", "SELECT", "rollback", "close">>)
    ELSE IF RowsMatching(sale_id, rows) = {}
    THEN Done(0, rows, seq, <<"connect", "SELECT", "close">>)
    ELSE Refresh(rows[CHOOSE i \in RowsMatching(sale_id, rows) : TRUE], sale_id,
                 customer_id, product_id, quantity, sc1, sc2, rows, seq, db,
                 customers, products)

\* the make_sale branch of process_sales_command after the call r of make_sale
SaleMade(r, customer_id, product_id, quantity, rows, seq) ==
    IF r.exc THEN Outcome(CommandFailed(r.msg), r.rows, r.seq, r.calls)
    ELSE Outcome(
            SuccessEnv("make_sale",
                       <<Ch("Sale recorded: ")>> \o Fmt(r.val.customer_name)
                       \o <<Ch(" (ID ")>> \o Fmt(customer_id) \o <<Ch(") bought ")>>
                       \o Fmt(quantity) \o <<Ch("x ")>> \o Fmt(r.val.product_name)
                       \o <<Ch(" (ID ")>> \o Fmt(product_id) \o <<Ch(") at $")>>
                       \o Money(r.val.price) \o <<Ch(" each = $")>>
                       \o Money(r.val.total_price) \o <<Ch(" total")>>,
                       <<Item("sale",
                              Dict(<<Item("id", r.val.sale_id),
                                     Item("customer_id", customer_id),
                                     Item("customer_name", r.val.customer_name),
                                     Item("product_id", product_id),
                                     Item("product_name", r.val.product_name),
                                     Item("quantity", quantity),
                                     Item("price", r.val.price),
                                     Item("total_price", r.val.total_price)>>))>>),
            r.rows, r.seq, r.calls)

\* the update_sale branch of process_sales_command after the call r of update_sale
SaleUpdated(r, sale_id, rows, seq) ==
    IF r.exc THEN Outcome(CommandFailed(r.msg), r.rows, r.seq, r.calls)
    ELSE IF r.val # 0
    THEN Outcome(SuccessEnv("update_sale",
                            <<Ch("Sale with ID ")>> \o Fmt(sale_id)
                            \o <<Ch(" updated with recalculated pricing")>>, <<>>),
                 r.rows, seq, r.calls)
    ELSE Outcome(ErrorEnv("update_sale",
                          <<Ch("No sale found with ID ")>> \o Fmt(sale_id)
                          \o <<Ch(" or nothing to update")>>),
                 r.rows, r.seq, r.calls)

\* process_sales_command from `intent = parsed.get("intent")` on
SalesIntent(parsed, sc1, sc2, rows, seq, db, customers, products) ==
    LET same(env) == Outcome(env, rows, seq, <<>>)
        intent == Get(parsed, "intent", None)
        params == Get(parsed, "parameters", EmptyDict)
        sale_id == Get(params, "id", None)
        customer_id == Get(params, "customer_id", None)
        product_id == Get(params, "product_id", None)
        quantity == Get(params, "quantity", None)
    IN
    CASE intent = Str("list_sales") ->
            LET r == list_sales(rows, db)
            IN IF r.exc THEN Outcome(CommandFailed(r.msg), rows, seq, r.calls)
               ELSE Outcome(SuccessEnv("list_sales",
                                       <<Ch("Found "), [n |-> 1000 * Len(r.val.elems)],
                                         Ch(" sale(s)")>>,
                                       <<Item("sales", r.val),
                                         Item("count", Whole(Len(r.val.elems)))>>),
                            rows, seq, r.calls)
      [] intent \notin {Str("make_sale"), Str("delete_sale"), Str("update_sale"),
                        Str("list_sales")} ->
            same(ErrorEnv("unknown", <<Ch("Command not recognized")>>))
      [] OTHER ->
    IF ~IsDict(params) THEN same(CommandFailed(<<Ch("AttributeError")>>))
    ELSE
    CASE intent = Str("make_sale") ->
            IF ~(Truthy(customer_id) /\ Truthy(product_id) /\ Truthy(quantity))
            THEN same(CommandFailed(<<Ch("Missing required fields for sale")>>))
            ELSE SaleMade(make_sale(customer_id, product_id, quantity, sc1, sc2,
                                    rows, seq, db, customers, products),
                          customer_id, product_id, quantity, rows, seq)
      [] intent = Str("delete_sale") ->
            LET r == delete_sale(sale_id, rows, seq, db)
            IN IF ~Truthy(sale_id) THEN same(CommandFailed(<<Ch("Sale ID missing")>>))
               ELSE IF r.exc THEN Outcome(CommandFailed(r.msg), r.rows, r.seq, r.calls)
               ELSE IF r.val # 0
               THEN Outcome(SuccessEnv("delete_sale",
                                       <<Ch("Sale with ID ")>> \o Fmt(sale_id)
                                       \o <<Ch(" deleted")>>, <<>>),
                            r.rows, seq, r.calls)
               ELSE Outcome(ErrorEnv("delete_sale",
                                     <<Ch("No sale found with ID ")>> \o Fmt(sale_id)),
                            r.rows, r.seq, r.calls)
      [] intent = Str("update_sale") ->
            IF ~Truthy(sale_id) THEN same(CommandFailed(<<Ch("Sale ID missing")>>))
            ELSE SaleUpdated(update_sale(sale_id, customer_id, product_id, quantity,
                                         sc1, sc2, rows, seq, db, customers, products),
                             sale_id, rows, seq)

\* process_sales_command from `parsed = json.loads(result)` on
SalesParsed(parsed, sc1, sc2, rows, seq, db, customers, products) ==
    IF ~parsed.ok THEN Outcome(CommandFailed(<<Ch("JSONDecodeError")>>), rows, seq, <<>>)
    ELSE IF ~IsDict(parsed.val)
    THEN Outcome(CommandFailed(<<Ch("AttributeError")>>), rows, seq, <<>>)
    ELSE SalesIntent(parsed.val, sc1, sc2, rows, seq, db, customers, products)

\* process_sales_command: reply is the classifier's answer to the command
process_sales_command(reply, sc1, sc2, rows, seq, db, customers, products) ==
    IF reply.exc THEN Outcome(CommandFailed(<<Ch("classifier error")>>), rows, seq, <<>>)
    ELSE SalesParsed(Loads(Strip(reply.content)), sc1, sc2, rows, seq, db,
                     customers, products)

\* make_sale from `total_price = ...` on, run some time after its two lookups
\* returned customer_name and details, if it read the customer and the product
\* again before inserting (a faulty variant, against which C18 is tested)
make_sale_insert_rereading(customer_name, details, a, rows, seq, db, customers, products) ==
    Sell(get_customer_name(a.customer_id, Healthy, customers, products).val,
         get_product_details(a.product_id, Healthy, customers, products).val,
         a, rows, seq, db)

\* make_sale from `total_price = ...` on, run some time after its two lookups
\* returned customer_name and details: customers and products are the tables
\* as they are by then, which it does not read
make_sale_insert(customer_name, details, a, rows, seq, db, customers, products) ==
    Sell(customer_name, details, a, rows, seq, db)

\* ----------------------------------------------------------- handle_task
\* handle_task when `not text`: the task asks for input, nothing else happens
InputRequired(prompt, rows, seq) ==
    [rows |-> rows, seq |-> seq, env |-> None, calls |-> <<>>, classified |-> FALSE,
     task |-> [state |-> "INPUT_REQUIRED",
               message |-> Dict(<<Item("role", Str("agent")),
                                  Item("content", Dict(<<Item("type", Str("text")),
                                                         Item("text", Str(prompt))>>))>>),
               artifacts |-> <<>>]]

\* handle_task with the outcome r of the command processor
Finished(r) ==
    [rows |-> r.rows, seq |-> r.seq, env |-> r.env, calls |-> r.calls, classified |-> TRUE,
     task |-> [state |-> IF Get(r.env, "status", None) = Success
                         THEN "COMPLETED" ELSE "FAILED",
               message |-> IF Get(r.env, "status", None) = Success THEN None
                           ELSE Get(r.env, "message", None),
               artifacts |-> <<[parts |-> <<[type |-> "text",
                                             text |-> PyStr(Dumps(r.env))]>>]>>]]

\* handle_task passing every text on to the command processor (a faulty
\* variant, against which C17 is tested)
handle_task_eager(text, prompt, r, rows, seq) ==
    Finished(r)

\* handle_task: prompt is the agent's request for a command
handle_task(text, prompt, r, rows, seq) ==
    IF ~Truthy(text) THEN InputRequired(prompt, rows, seq) ELSE Finished(r)

\* ================================================================ state
\* customers, products, sales: the three tables, id -> row
\* seq:     the last value each table's SERIAL sequence has handed out
\* pending: the task in flight (NoRequest when none): the agent it is for, its
\*          text, what that agent's classifier makes of it (intent and
\*          parameters), how the SalesAgent's two Router lookups go and how
\*          the store behaves
\* last:    the result just returned and the task it answers (NoResult once
\*          the caller has taken it)
VARIABLES customers, products, sales, seq, pending, last
vars == <<customers, products, sales, seq, pending, last>>

NoRequest == [agent |-> ""]
NoResult == [agent |-> ""]

\* a task whose text the classifier reads as intent and params
Request(agent, intent, params, sc1, sc2, db) ==
    [agent |-> agent, text |-> Str(intent), intent |-> intent, params |-> params,
     sc1 |-> sc1, sc2 |-> sc2, db |-> db]

\* a task with empty text
EmptyTask(agent) ==
    [Request(agent, "", <<>>, Healthy, Healthy, "ok") EXCEPT !.text = EmptyStr]

\* a parameter the classifier extracted, none when it found no value
Param(k, v) == IF v = None THEN <<>> ELSE <<Item(k, v)>>

\* ---------------------------------------------------------------- inputs
JohnDoe == PyStr(<<Ch(" "), Ch("John Doe")>>)
\* 999.00, 9.995, -1.00, NaN, text that is no number, and the texts "9.995",
\* "-1.0" and "nan"
PriceInputs == {None, Num(999000), Num(9995), Num(-1000), NaN, Str("cheap"),
                PyStr(<<[n |-> 9995]>>), PyStr(<<[n |-> -1000]>>), Str("nan")}
\* 2, 2.7, 0, -1
QuantityInputs == {None, Whole(2), Num(2700), Whole(0), Whole(-1)}
Ids(lo, hi) == {Whole(i) : i \in lo..hi}

ProductRequests ==
    {Request("ProductAgent", "add_product", Param("name", n) \o Param("price", p),
             Healthy, Healthy, db) :
        n \in {None, EmptyStr, Str("iPhone"), PyStr(<<Ch(" "), Ch("iPhone")>>)},
        p \in PriceInputs, db \in {"ok", "error"}}
    \cup {Request("ProductAgent", "list_products", <<>>, Healthy, Healthy, db) :
            db \in {"ok", "error"}}
    \cup {Request("ProductAgent", i, Param("id", id), Healthy, Healthy, db) :
            i \in {"get_product", "delete_product"}, id \in {None} \cup Ids(0, 2),
            db \in {"ok", "error"}}
    \cup {Request("ProductAgent", "update_product",
                  Param("id", id) \o Param("name", n) \o Param("price", p)
                  \o Param("description", d), Healthy, Healthy, db) :
            id \in {None} \cup Ids(1, 2), n \in {None, EmptyStr, Str("iPhone")},
            p \in PriceInputs, d \in {None, Str("a phone")}, db \in {"ok", "error"}}
    \cup {Request("ProductAgent", i, <<>>, Healthy, Healthy, "ok") :
            i \in {"remove everything"} \cup ClassifierFailures}
    \cup {EmptyTask("ProductAgent")}

\* how the two lookups and the store go during one sales command: all well,
\* the store failing, a lookup answered in decoded form, the Router unreachable
SalesEnvs ==
    {<<Healthy, Healthy, "ok">>, <<Healthy, Healthy, "error">>,
     <<[Healthy EXCEPT !.inner = "dict", !.outer = "dict"], Healthy, "ok">>,
     <<Healthy, [Healthy EXCEPT !.inner = "dict", !.outer = "dict"], "ok">>,
     <<[Healthy EXCEPT !.outer = "down"], Healthy, "ok">>,
     <<Healthy, [Healthy EXCEPT !.outer = "down"], "ok">>}

SalesRequests ==
    {Request("SalesAgent", "make_sale",
             Param("customer_id", c) \o Param("product_id", p) \o Param("quantity", q),
             e[1], e[2], e[3]) :
        c \in {None} \cup Ids(1, 2), p \in Ids(1, 2), q \in QuantityInputs, e \in SalesEnvs}
    \cup {Request("SalesAgent", "update_sale",
                  Param("id", id) \o Param("customer_id", c) \o Param("product_id", p)
                  \o Param("quantity", q), e[1], e[2], e[3]) :
            id \in Ids(1, 2), c \in {None, Whole(1)}, p \in {None} \cup Ids(1, 2),
            q \in QuantityInputs \ {Whole(0)}, e \in SalesEnvs}
    \cup {Request("SalesAgent", "list_sales", <<>>, Healthy, Healthy, db) :
            db \in {"ok", "error"}}
    \cup {Request("SalesAgent", "delete_sale", Param("id", id), Healthy, Healthy, db) :
            id \in {None} \cup Ids(1, 2), db \in {"ok", "error"}}
    \cup {Request("SalesAgent", i, <<>>, Healthy, Healthy, "ok") :
            i \in {"remove everything"} \cup ClassifierFailures}
    \cup {EmptyTask("SalesAgent")}

\* the customer and product commands that drive the tables the SalesAgent
\* looks up, when the three agents run together
EntityRequests ==
    {Request("CustomerAgent", "add_customer", Param("name", JohnDoe), Healthy, Healthy, "ok"),
     Request("CustomerAgent", "update_customer",
             Param("id", Whole(1)) \o Param("name", Str("Jane Roe")), Healthy, Healthy, "ok"),
     Request("CustomerAgent", "update_customer",
             Param("id", Whole(1)) \o Param("name", EmptyStr)
             \o Param("email", Str("jd@example.com")), Healthy, Healthy, "ok"),
     Request("CustomerAgent", "update_customer",
             Param("id", Whole(1)) \o Param("name", EmptyStr), Healthy, Healthy, "ok"),
     Request("CustomerAgent", "update_customer", Param("id", Whole(1)), Healthy, Healthy, "ok"),
     Request("CustomerAgent", "update_customer",
             Param("id", Whole(2)) \o Param("email", Str("jd@example.com")),
             Healthy, Healthy, "ok"),
     Request("CustomerAgent", "delete_customer", Param("id", Whole(1)), Healthy, Healthy, "ok"),
     Request("CustomerAgent", "delete_customer", Param("id", Whole(1)), Healthy, Healthy, "error"),
     Request("CustomerAgent", "add_customer", Param("name", EmptyStr), Healthy, Healthy, "ok"),
     Request("CustomerAgent", "get_customer", Param("id", Whole(1)), Healthy, Healthy, "ok"),
     Request("CustomerAgent", "get_customer", Param("id", Whole(0)), Healthy, Healthy, "ok"),
     Request("CustomerAgent", "get_customer", Param("id", Whole(2)), Healthy, Healthy, "ok"),
     Request("CustomerAgent", "delete_customer", Param("id", Whole(0)), Healthy, Healthy, "ok"),
     Request("CustomerAgent", "delete_customer", Param("id", Whole(2)), Healthy, Healthy, "ok"),
     Request("CustomerAgent", "list_customers", <<>>, Healthy, Healthy, "ok"),
     Request("CustomerAgent", "remove everything", <<>>, Healthy, Healthy, "ok"),
     Request("CustomerAgent", "classifier error", <<>>, Healthy, Healthy, "ok"),
     Request("CustomerAgent", "not json", <<>>, Healthy, Healthy, "ok"),
     Request("CustomerAgent", "json list", <<>>, Healthy, Healthy, "ok"),
     Request("ProductAgent", "add_product",
             Param("name", Str("iPhone")) \o Param("price", Num(999000)),
             Healthy, Healthy, "ok"),
     Request("ProductAgent", "update_product",
             Param("id", Whole(1)) \o Param("price", Num(9995)), Healthy, Healthy, "ok"),
     Request("ProductAgent", "update_product",
             Param("id", Whole(1)) \o Param("name", EmptyStr), Healthy, Healthy, "ok"),
     Request("ProductAgent", "update_product", Param("id", Whole(1)), Healthy, Healthy, "ok"),
     Request("ProductAgent", "update_product",
             Param("id", Whole(1)) \o Param("description", Str("a phone")),
             Healthy, Healthy, "ok"),
     Request("ProductAgent", "delete_product", Param("id", Whole(1)), Healthy, Healthy, "ok"),
     Request("ProductAgent", "update_product",
             Param("id", Whole(1)) \o Param("price", Num(9995)), Healthy, Healthy, "error"),
     Request("ProductAgent", "update_product",
             Param("id", Whole(1)) \o Param("price", Str("cheap")), Healthy, Healthy, "ok"),
     Request("ProductAgent", "get_product", Param("id", Whole(1)), Healthy, Healthy, "ok"),
     Request("ProductAgent", "get_product", Param("id", Whole(0)), Healthy, Healthy, "ok"),
     Request("ProductAgent", "delete_product", Param("id", Whole(2)), Healthy, Healthy, "ok"),
     Request("ProductAgent", "list_products", <<>>, Healthy, Healthy, "ok"),
     Request("ProductAgent", "remove everything", <<>>, Healthy, Healthy, "ok"),
     EmptyTask("CustomerAgent"), EmptyTask("ProductAgent")}

\* the SalesAgent's resolver called on its own: one lookup through the Router
ResolverRequests ==
    {Request("SalesAgent", f, Param("id", id), sc, sc, "ok") :
        f \in {"get_customer_name", "get_product_details"}, id \in Ids(0, 2),
        sc \in AllScenarios}
    \cup {Request("SalesAgent", "parse_agent_response",
                  Param("entity", Str(e)) \o Param("id", id), sc, sc, "ok") :
            e \in {"customer", "product"}, id \in Ids(1, 2),
            sc \in {x \in AllScenarios : x.route = "owner" /\ x.agent = "up"
                                         /\ x.inner = "str" /\ x.outer \in {"str", "dict"}}}

\* the replies of the Router's classifier: a failure, the three names, a name
\* in white space, None, and replies outside the closed set
RouterReplies ==
    {[exc |-> TRUE, content |-> EmptyStr]}
    \cup {[exc |-> FALSE, content |-> c] :
            c \in {Str("ProductAgent"), Str("CustomerAgent"), Str("SalesAgent"),
                   PyStr(<<Ch(" "), Ch("CustomerAgent"), Ch(" ")>>), Str("None"),
                   Str("BillingAgent"), Str("customeragent"), EmptyStr}}

\* the commands sent through the Router, as the agent that receives one reads it
RoutedCommands ==
    {<<"add_customer", Param("name", JohnDoe)>>,
     <<"get_customer", Param("id", Whole(1))>>,
     <<"delete_customer", Param("id", Whole(1))>>,
     <<"add_product", Param("name", Str("iPhone")) \o Param("price", Num(999000))>>,
     <<"get_product", Param("id", Whole(1))>>,
     <<"make_sale", Param("customer_id", Whole(1)) \o Param("product_id", Whole(1))
                    \o Param("quantity", Whole(2))>>,
     <<"update_sale", Param("id", Whole(1)) \o Param("quantity", Whole(3))>>,
     <<"list_sales", <<>>>>,
     <<"remove everything", <<>>>>, <<"classifier error", <<>>>>, <<"not json", <<>>>>}

\* a task for the Router: reply is its classifier's answer, network the agents
\* in its directory, up whether the target answers, form the shape of the
\* answer, db how the target's store behaves
RouterRequests ==
    {[agent |-> "RouterAgent", text |-> Str(c[1]), intent |-> c[1], params |-> c[2],
      sc1 |-> Healthy, sc2 |-> Healthy, db |-> d,
      reply |-> r, network |-> n, up |-> u, form |-> f] :
        c \in RoutedCommands, d \in {"ok", "error"}, r \in RouterReplies,
        n \in {AgentNames, AgentNames \ {"CustomerAgent"}},
        u \in {"up", "refused", "timeout"}, f \in {"str", "dict"}}
    \cup {[agent |-> "RouterAgent", text |-> Str(c[1]), intent |-> c[1], params |-> c[2],
           sc1 |-> s[1], sc2 |-> s[2], db |-> "ok",
           reply |-> [exc |-> FALSE, content |-> Str("SalesAgent")],
           network |-> AgentNames, up |-> "up", form |-> "str"] :
            c \in {x \in RoutedCommands : x[1] \in {"make_sale", "update_sale"}},
            s \in {<<[Healthy EXCEPT !.outer = "down"], Healthy>>,
                   <<Healthy, [Healthy EXCEPT !.agent = "down"]>>}}
    \cup {[agent |-> "RouterAgent", text |-> EmptyStr, intent |-> "", params |-> <<>>,
           sc1 |-> Healthy, sc2 |-> Healthy, db |-> "ok",
           reply |-> [exc |-> FALSE, content |-> Str("None")], network |-> AgentNames,
           up |-> "up", form |-> "str"]}

\* --------------------------------------------------------------- actions
Init ==
    /\ customers = <<>>
    /\ products = <<>>
    /\ sales = <<>>
    /\ seq = [customers |-> 0, products |-> 0, sales |-> 0]
    /\ pending = NoRequest
    /\ last = NoResult

\* a caller sends one command; an add is sent only while its table has room
SubmitFrom(reqs) ==
    /\ pending = NoRequest
    /\ last = NoResult
    /\ \E r \in reqs :
          /\ r.intent = "add_customer" => seq.customers < MaxCustomers
          /\ r.intent = "add_product" => seq.products < MaxProducts
          /\ r.intent = "make_sale" => seq.sales < MaxSales
          /\ pending' = r
    /\ UNCHANGED <<customers, products, sales, seq, last>>

Submit == SubmitFrom(EntityRequests \cup SalesRequests)

\* the caller takes the result
Reply ==
    /\ last # NoResult
    /\ last' = NoResult
    /\ UNCHANGED <<customers, products, sales, seq, pending>>

\* handle_task as it would be if the customer's name were a live reference
\* from the sale rows (a faulty variant, against which C2 is tested)
CustomerTaskCascade(r) ==
    /\ customers' = r.rows
    /\ seq' = [seq EXCEPT !.customers = r.seq]
    /\ last' = [agent |-> pending.agent, req |-> pending, env |-> r.env,
                calls |-> r.calls, classified |-> r.classified, task |-> r.task]
    /\ pending' = NoRequest
    /\ sales' = [i \in DOMAIN sales |->
                   IF sales[i].customer_id \in DOMAIN r.rows
                   THEN [sales[i] EXCEPT !.customer_name = r.rows[sales[i].customer_id].name]
                   ELSE sales[i]]
    /\ UNCHANGED products

\* the CustomerAgent's handle_task with the outcome r of process_customer_command
CustomerTask(r) ==
    /\ customers' = r.rows
    /\ seq' = [seq EXCEPT !.customers = r.seq]
    /\ last' = [agent |-> pending.agent, req |-> pending, env |-> r.env,
                calls |-> r.calls, classified |-> r.classified, task |-> r.task]
    /\ pending' = NoRequest
    /\ UNCHANGED <<products, sales>>

\* the CustomerAgent handles the pending command
CustomerCommand ==
    /\ pending.agent = "CustomerAgent"
    /\ CustomerTask(handle_task(
          pending.text, "Please provide a customer management command.",
          process_customer_command(Classify(pending.intent, pending.params),
                                             customers, seq.customers, pending.db),
          customers, seq.customers))

\* the ProductAgent's handle_task with the outcome r of process_product_command
ProductTask(r) ==
    /\ products' = r.rows
    /\ seq' = [seq EXCEPT !.products = r.seq]
    /\ last' = [agent |-> pending.agent, req |-> pending, env |-> r.env,
                calls |-> r.calls, classified |-> r.classified, task |-> r.task]
    /\ pending' = NoRequest
    /\ UNCHANGED <<customers, sales>>

\* the ProductAgent handles the pending command
ProductCommand ==
    /\ pending.agent = "ProductAgent"
    /\ ProductTask(handle_task(
          pending.text, "Please provide a product management command.",
          process_product_command(Classify(pending.intent, pending.params),
                                           products, seq.products, pending.db),
          products, seq.products))

\* the SalesAgent's handle_task with the outcome r of process_sales_command
SalesTask(r) ==
    /\ sales' = r.rows
    /\ seq' = [seq EXCEPT !.sales = r.seq]
    /\ last' = [agent |-> pending.agent, req |-> pending, env |-> r.env,
                calls |-> r.calls, classified |-> r.classified, task |-> r.task]
    /\ pending' = NoRequest
    /\ UNCHANGED <<customers, products>>

\* the SalesAgent handles the pending command
SalesCommand ==
    /\ pending.agent = "SalesAgent"
    /\ SalesTask(handle_task(
          pending.text, "Please provide a sales management command.",
          process_sales_command(Classify(pending.intent, pending.params),
                                       pending.sc1, pending.sc2, sales, seq.sales,
                                       pending.db, customers, products),
          sales, seq.sales))

\* route_and_execute on the pending command: rc, rp and rs are the outcomes the
\* three agents' command processors give it; the agent asked handles the
\* command unless it cannot be reached
Routed(rc, rp, rs) ==
    LET a == Forwarded(pending.reply, pending.network)
        handled(x) == a = x /\ pending.up # "refused"
        asks == [x \in AgentNames |->
                   AgentAsk(pending.up, pending.form,
                            CASE x = "CustomerAgent" -> rc.env
                              [] x = "ProductAgent"  -> rp.env
                              [] x = "SalesAgent"    -> rs.env)]
    IN [env |-> route_and_execute(pending.text, pending.reply, pending.network, asks),
        rows |-> [customers |-> IF handled("CustomerAgent") THEN rc.rows ELSE customers,
                  products  |-> IF handled("ProductAgent") THEN rp.rows ELSE products,
                  sales     |-> IF handled("SalesAgent") THEN rs.rows ELSE sales],
        seq |-> [customers |-> IF handled("CustomerAgent") THEN rc.seq ELSE seq.customers,
                 products  |-> IF handled("ProductAgent") THEN rp.seq ELSE seq.products,
                 sales     |-> IF handled("SalesAgent") THEN rs.seq ELSE seq.sales],
        calls |-> IF a = "" THEN <<>>
                  ELSE <<a>> \o (CASE handled("CustomerAgent") -> rc.calls
                                   [] handled("ProductAgent") -> rp.calls
                                   [] handled("SalesAgent") -> rs.calls
                                   [] OTHER -> <<>>)]

\* the RouterAgent's handle_task with the outcome r of route_and_execute
RouterTask(r) ==
    /\ customers' = r.rows.customers
    /\ products' = r.rows.products
    /\ sales' = r.rows.sales
    /\ seq' = r.seq
    /\ last' = [agent |-> pending.agent, req |-> pending, env |-> r.env,
                calls |-> r.calls, classified |-> r.classified, task |-> r.task]
    /\ pending' = NoRequest

\* the RouterAgent handles the pending command
RouterCommand ==
    /\ pending.agent = "RouterAgent"
    /\ RouterTask(handle_task(
          pending.text, "Please provide a command to route to the appropriate agent.",
          Routed(process_customer_command(Classify(pending.intent, pending.params),
                                          customers, seq.customers, pending.db),
                 process_product_command(Classify(pending.intent, pending.params),
                                         products, seq.products, pending.db),
                 process_sales_command(Classify(pending.intent, pending.params),
                                       pending.sc1, pending.sc2, sales, seq.sales,
                                       pending.db, customers, products)),
          [customers |-> customers, products |-> products, sales |-> sales], seq))

\* one customer lookup of the SalesAgent's resolver
ResolveCustomer ==
    /\ pending.agent = "SalesAgent" /\ pending.intent = "get_customer_name"
    /\ last' = [agent |-> pending.agent, req |-> pending,
                out |-> get_customer_name(Get(Dict(pending.params), "id", None),
                                          pending.sc1, customers, products)]
    /\ pending' = NoRequest
    /\ UNCHANGED <<customers, products, sales, seq>>

\* one product lookup of the SalesAgent's resolver
ResolveProduct ==
    /\ pending.agent = "SalesAgent" /\ pending.intent = "get_product_details"
    /\ last' = [agent |-> pending.agent, req |-> pending,
                out |-> get_product_details(Get(Dict(pending.params), "id", None),
                                            pending.sc1, customers, products)]
    /\ pending' = NoRequest
    /\ UNCHANGED <<customers, products, sales, seq>>

\* the Router's result for the pending lookup with `response` in wire form `form`
Shape(form) ==
    RouterAsk(LookupCommand(Get(Dict(pending.params), "entity", None).s[1].c,
                            Get(Dict(pending.params), "id", None)),
              [pending.sc1 EXCEPT !.inner = form], customers, products).val

\* parse_agent_response on one Router result in its two shapes: `response`
\* as JSON text (encoded) and as the structure that text decodes to (decoded)
ParseResponse ==
    /\ pending.agent = "SalesAgent" /\ pending.intent = "parse_agent_response"
    /\ last' = [agent |-> pending.agent, req |-> pending,
                encoded |-> parse_agent_response(Shape("str")),
                decoded |-> parse_agent_response(Shape("dict"))]
    /\ pending' = NoRequest
    /\ UNCHANGED <<customers, products, sales, seq>>

\* ------------------------------------------- make_sale in its two phases
\* the arguments of the pending make_sale
SaleArgs ==
    [customer_id |-> Get(Dict(pending.params), "customer_id", None),
     product_id |-> Get(Dict(pending.params), "product_id", None),
     quantity |-> Get(Dict(pending.params), "quantity", None)]

\* the pending make_sale passes the argument checks of process_sales_command
\* and of make_sale, so the two lookups are made
SaleArgsValid ==
    /\ Truthy(SaleArgs.customer_id) /\ Truthy(SaleArgs.product_id)
    /\ IsNum(SaleArgs.quantity) /\ SaleArgs.quantity.m > 0

\* the commands of the callers while sales are made: the adds that fill the
\* two tables, and sales with a good and a bad quantity
WindowRequests ==
    {Request("CustomerAgent", "add_customer", Param("name", JohnDoe), Healthy, Healthy, "ok"),
     Request("ProductAgent", "add_product",
             Param("name", Str("iPhone")) \o Param("price", Num(999000)),
             Healthy, Healthy, "ok")}
    \cup {Request("SalesAgent", "make_sale",
                  Param("customer_id", Whole(1)) \o Param("product_id", Whole(1))
                  \o Param("quantity", q), Healthy, Healthy, db) :
            q \in {Whole(2), Whole(0)}, db \in {"ok", "error"}}

\* the commands other callers send to the entity agents while a sale is in flight
ConcurrentUpdates ==
    {Request("CustomerAgent", "update_customer",
             Param("id", Whole(1)) \o Param("name", n), Healthy, Healthy, "ok") :
        n \in {Str("John Doe"), Str("Jane Roe")}}
    \cup {Request("ProductAgent", "update_product",
                  Param("id", Whole(1)) \o Param("price", p), Healthy, Healthy, "ok") :
            p \in {Num(999000), Num(9995)}}
    \cup {Request("ProductAgent", "update_product",
                  Param("id", Whole(1)) \o Param("name", Str("iPhone 15")),
                  Healthy, Healthy, "ok")}

\* the SalesAgent takes the pending make_sale up to the return of its two
\* lookups; what they returned is kept with the task
MakeSaleResolve ==
    /\ pending.agent = "SalesAgent" /\ pending.intent = "make_sale"
    /\ "resolved" \notin DOMAIN pending
    /\ SaleArgsValid
    /\ pending' = [agent |-> pending.agent, text |-> pending.text,
                   intent |-> pending.intent, params |-> pending.params,
                   sc1 |-> pending.sc1, sc2 |-> pending.sc2, db |-> pending.db,
                   resolved |->
                      [customer_name |->
                          get_customer_name(SaleArgs.customer_id, pending.sc1,
                                            customers, products).val,
                       details |->
                          get_product_details(SaleArgs.product_id, pending.sc2,
                                              customers, products).val]]
    /\ UNCHANGED <<customers, products, sales, seq, last>>

\* a pending make_sale that fails its argument checks makes no lookup and is
\* handled in one step
MakeSaleReject ==
    /\ pending.agent = "SalesAgent" /\ pending.intent = "make_sale"
    /\ ~SaleArgsValid
    /\ SalesCommand

\* while the sale is in flight, the CustomerAgent or the ProductAgent handles
\* an update another caller sent it
ConcurrentUpdate ==
    /\ pending.agent = "SalesAgent"
    /\ "resolved" \in DOMAIN pending
    /\ \E u \in ConcurrentUpdates :
          IF u.agent = "CustomerAgent"
          THEN /\ customers' =
                     handle_task(u.text, "Please provide a customer management command.",
                                 process_customer_command(Classify(u.intent, u.params),
                                                          customers, seq.customers, u.db),
                                 customers, seq.customers).rows
               /\ UNCHANGED products
          ELSE /\ products' =
                     handle_task(u.text, "Please provide a product management command.",
                                 process_product_command(Classify(u.intent, u.params),
                                                         products, seq.products, u.db),
                                 products, seq.products).rows
               /\ UNCHANGED customers
    /\ UNCHANGED <<sales, seq, pending, last>>

\* the SalesAgent takes the sale in flight from the computation of the total
\* to the end of handle_task
MakeSaleInsert ==
    /\ pending.agent = "SalesAgent"
    /\ "resolved" \in DOMAIN pending
    /\ SalesTask(handle_task(
          pending.text, "Please provide a sales management command.",
          SaleMade(make_sale_insert(pending.resolved.customer_name,
                                    pending.resolved.details, SaleArgs, sales, seq.sales,
                                    pending.db, customers, products),
                   SaleArgs.customer_id, SaleArgs.product_id, SaleArgs.quantity,
                   sales, seq.sales),
          sales, seq.sales))

\* the three agents over one store
Next == Submit \/ CustomerCommand \/ ProductCommand \/ SalesCommand \/ Reply

Spec == Init /\ [][Next]_vars

\* the ProductAgent alone, with every parameter its classifier may produce
SubmitProduct == SubmitFrom(ProductRequests)
NextProduct == SubmitProduct \/ ProductCommand \/ Reply
SpecProduct == Init /\ [][NextProduct]_vars

\* the Router in front of the three agents
SubmitRoute == SubmitFrom(RouterRequests)
NextRouter == SubmitRoute \/ RouterCommand \/ Reply
SpecRouter == Init /\ [][NextRouter]_vars

\* the resolver over the customers and products the entity agents maintain,
\* with every way a lookup can go
SubmitLookup == SubmitFrom(EntityRequests \cup ResolverRequests)
NextResolver ==
    \/ SubmitLookup \/ CustomerCommand \/ ProductCommand
    \/ ResolveCustomer \/ ResolveProduct \/ ParseResponse \/ Reply
SpecResolver == Init /\ [][NextResolver]_vars

\* sales made while other callers rename the customer and reprice the product
SubmitWindow == SubmitFrom(WindowRequests)
NextWindow ==
    \/ SubmitWindow \/ CustomerCommand \/ ProductCommand \/ MakeSaleReject
    \/ MakeSaleResolve \/ ConcurrentUpdate \/ MakeSaleInsert \/ Reply
SpecWindow == Init /\ [][NextWindow]_vars

\* ------------------------------------------------ ids through adds and deletes
\* the commands that add, change and delete rows of the three tables
IdRequests ==
    {Request("CustomerAgent", "add_customer", Param("name", JohnDoe), Healthy, Healthy, "ok"),
     Request("CustomerAgent", "update_customer",
             Param("id", Whole(1)) \o Param("name", Str("Jane Roe")), Healthy, Healthy, "ok"),
     Request("ProductAgent", "add_product",
             Param("name", Str("iPhone")) \o Param("price", Num(999000)),
             Healthy, Healthy, "ok"),
     Request("SalesAgent", "update_sale",
             Param("id", Whole(1)) \o Param("quantity", Whole(3)), Healthy, Healthy, "ok")}
    \cup {Request(a[1], a[2], Param("id", id), Healthy, Healthy, "ok") :
            a \in {<<"CustomerAgent", "delete_customer">>, <<"ProductAgent", "delete_product">>,
                   <<"SalesAgent", "delete_sale">>},
            id \in Ids(1, MaxIds)}
    \cup {Request("SalesAgent", "make_sale",
                  Param("customer_id", c) \o Param("product_id", Whole(1))
                  \o Param("quantity", Whole(2)), Healthy, Healthy, "ok") :
            c \in Ids(1, 2)}

\* a caller sends one of these commands; an add is sent only while its table
\* has handed out fewer than MaxIds ids
SubmitIds ==
    /\ pending = NoRequest
    /\ last = NoResult
    /\ \E r \in IdRequests :
          /\ r.intent = "add_customer" => seq.customers < MaxIds
          /\ r.intent = "add_product" => seq.products < MaxIds
          /\ r.intent = "make_sale" => seq.sales < MaxIds
          /\ pending' = r
    /\ UNCHANGED <<customers, products, sales, seq, last>>

NextIds == SubmitIds \/ CustomerCommand \/ ProductCommand \/ SalesCommand \/ Reply
SpecIds == Init /\ [][NextIds]_vars

\* ------------------------------------------- update_sale in its two phases
\* the commands of the callers while sales are updated: the adds that fill
\* the tables, sales, and updates of sale 1 that supply one field
OverlapRequests ==
    {Request("CustomerAgent", "add_customer", Param("name", JohnDoe), Healthy, Healthy, "ok")}
    \cup {Request("ProductAgent", "add_product",
                  Param("name", Str(n)) \o Param("price", Num(999000)),
                  Healthy, Healthy, "ok") : n \in {"iPhone", "iPad"}}
    \cup {Request("SalesAgent", "make_sale",
                  Param("customer_id", Whole(1)) \o Param("product_id", p)
                  \o Param("quantity", Whole(2)), Healthy, Healthy, "ok") :
            p \in Ids(1, MaxIds)}
    \cup {Request("SalesAgent", "update_sale",
                  Param("id", Whole(1)) \o Param("product_id", p) \o Param("quantity", q),
                  Healthy, Healthy, db) :
            p \in {None} \cup Ids(1, MaxIds), q \in {None, Whole(3)}, db \in {"ok", "error"}}

\* a caller sends one of these commands; an update of sale 1 is sent once the
\* sale exists
SubmitOverlap ==
    /\ pending = NoRequest
    /\ last = NoResult
    /\ \E r \in OverlapRequests :
          /\ r.intent = "add_customer" => seq.customers < MaxCustomers
          /\ r.intent = "add_product" => seq.products < MaxIds
          /\ r.intent = "make_sale" => seq.sales < MaxSales
          /\ r.intent = "update_sale" => 1 \in DOMAIN sales
          /\ pending' = r
    /\ UNCHANGED <<customers, products, sales, seq, last>>

\* the SalesAgent takes the pending update_sale up to `row = cursor.fetchone()`:
\* the row it read is kept with the task, and other holds the result of an
\* update another instance commits meanwhile
UpdateSaleFetch ==
    /\ pending.agent = "SalesAgent" /\ pending.intent = "update_sale"
    /\ "cur" \notin DOMAIN pending
    /\ pending' = [agent |-> pending.agent, text |-> pending.text,
                   intent |-> pending.intent, params |-> pending.params,
                   sc1 |-> pending.sc1, sc2 |-> pending.sc2, db |-> pending.db,
                   cur |-> sales[1], other |-> NoRequest]
    /\ UNCHANGED <<customers, products, sales, seq, last>>

\* while the update is in flight, another instance of the SalesAgent handles
\* an update_sale of the same sale from its SELECT to its commit
OtherUpdateSale ==
    /\ pending.agent = "SalesAgent"
    /\ "cur" \in DOMAIN pending
    /\ pending.other = NoRequest
    /\ \E u \in {r \in OverlapRequests : r.intent = "update_sale" /\ r.db = "ok"} :
          LET r == handle_task(u.text, "Please provide a sales management command.",
                               process_sales_command(Classify(u.intent, u.params),
                                                     u.sc1, u.sc2, sales, seq.sales,
                                                     u.db, customers, products),
                               sales, seq.sales)
          IN /\ sales' = r.rows
             /\ pending' = [pending EXCEPT !.other =
                               [agent |-> u.agent, params |-> u.params, env |-> r.env]]
    /\ UNCHANGED <<customers, products, seq, last>>

\* the SalesAgent takes the update in flight from `new_customer_id = ...` to
\* the end of handle_task, with the row it read before
UpdateSaleWrite ==
    /\ pending.agent = "SalesAgent"
    /\ "cur" \in DOMAIN pending
    /\ SalesTask(handle_task(
          pending.text, "Please provide a sales management command.",
          SaleUpdated(IF pending.db = "down" THEN Failed(DbError, sales, seq.sales, <<>>)
                      ELSE Refresh(pending.cur, Get(Dict(pending.params), "id", None),
                                   Get(Dict(pending.params), "customer_id", None),
                                   Get(Dict(pending.params), "product_id", None),
                                   Get(Dict(pending.params), "quantity", None),
                                   pending.sc1, pending.sc2, sales, seq.sales,
                                   pending.db, customers, products),
                      Get(Dict(pending.params), "id", None), sales, seq.sales),
          sales, seq.sales))

\* sales updated by two instances of the SalesAgent at once
NextOverlap ==
    \/ SubmitOverlap \/ CustomerCommand \/ ProductCommand
    \/ (pending.agent = "SalesAgent" /\ pending.intent = "make_sale" /\ SalesCommand)
    \/ UpdateSaleFetch \/ OtherUpdateSale \/ UpdateSaleWrite \/ Reply
SpecOverlap == Init /\ [][NextOverlap]_vars

\* ------------------------------------- the chain of calls of one command
\* what the callers send: the adds that fill the tables, and a command for
\* the Router, which starts a chain of calls: stack holds the calls that
\* have not returned yet, the innermost last, and ret the result that the
\* call which returned last hands to its caller
ChainRequests ==
    {Request("CustomerAgent", "add_customer", Param("name", JohnDoe), Healthy, Healthy, "ok"),
     Request("ProductAgent", "add_product",
             Param("name", Str("iPhone")) \o Param("price", Num(999000)),
             Healthy, Healthy, "ok"),
     [agent |-> "RouterAgent", intent |-> "make_sale", text |-> Str("make_sale"),
      stack |-> <<[agent |-> "RouterAgent", text |-> Str("make_sale")]>>,
      ret |-> NoRequest]}

\* what the SalesAgent's classifier may make of a text it is sent
ChainReadings ==
    {[intent |-> "make_sale",
      params |-> Param("customer_id", c) \o Param("product_id", Whole(1))
                 \o Param("quantity", Whole(2))] : c \in {None, Whole(1)}}
    \cup {[intent |-> i, params |-> <<>>] : i \in {"list_sales", "not json"}}

\* route_and_execute of the innermost call, a call of the Router: whatever its
\* classifier replies, it asks the SalesAgent, whose call is then the
\* innermost, or it returns the answer of an entity agent, or an error result
ChainRoute ==
    /\ pending.agent = "RouterAgent" /\ "stack" \in DOMAIN pending
    /\ pending.ret = NoRequest
    /\ pending.stack[Len(pending.stack)].agent = "RouterAgent"
    /\ \E reply \in RouterReplies :
          LET top == pending.stack[Len(pending.stack)]
              asks == [a \in AgentNames |->
                         CASE a = "CustomerAgent" ->
                                 AgentAsk("up", "str",
                                          process_customer_command(
                                             LookupIntent(a, top.text), customers, 0, "ok").env)
                           [] a = "ProductAgent" ->
                                 AgentAsk("up", "str",
                                          process_product_command(
                                             LookupIntent(a, top.text), products, 0, "ok").env)
                           [] OTHER -> Raise(<<>>)]
          IN IF Forwarded(reply, AgentNames) = "SalesAgent"
             THEN /\ Cardinality({i \in DOMAIN pending.stack :
                                     pending.stack[i].agent = "SalesAgent"}) < MaxDepth
                  /\ pending' = [pending EXCEPT !.stack =
                                    Append(@, [agent |-> "SalesAgent", text |-> top.text,
                                               stage |-> "new"])]
             ELSE pending' = [pending EXCEPT
                                 !.stack = SubSeq(@, 1, Len(@) - 1),
                                 !.ret = route_and_execute(top.text, reply, AgentNames, asks)]
    /\ UNCHANGED <<customers, products, sales, seq, last>>

\* process_sales_command of the innermost call, a call of the SalesAgent, up
\* to its first lookup: when the classifier's reading is a make_sale with
\* good arguments it asks the Router for the customer, else it returns
ChainHandle ==
    /\ pending.agent = "RouterAgent" /\ "stack" \in DOMAIN pending
    /\ pending.ret = NoRequest
    /\ pending.stack[Len(pending.stack)].agent = "SalesAgent"
    /\ pending.stack[Len(pending.stack)].stage = "new"
    /\ \E rd \in ChainReadings :
          LET top == pending.stack[Len(pending.stack)]
              r == handle_task(top.text, "Please provide a sales management command.",
                               process_sales_command(Classify(rd.intent, rd.params),
                                                     Healthy, Healthy, sales, seq.sales,
                                                     "ok", customers, products),
                               sales, seq.sales)
              a == [customer_id |-> Get(Dict(rd.params), "customer_id", None),
                    product_id |-> Get(Dict(rd.params), "product_id", None),
                    quantity |-> Get(Dict(rd.params), "quantity", None)]
          IN IF \E i \in DOMAIN r.calls : r.calls[i] = "get_customer_name"
             THEN /\ pending' = [pending EXCEPT !.stack =
                                    SubSeq(@, 1, Len(@) - 1)
                                    \o <<[agent |-> "SalesAgent", text |-> top.text,
                                          stage |-> "customer", a |-> a],
                                         [agent |-> "RouterAgent",
                                          text |-> LookupCommand("customer", a.customer_id)]>>]
                  /\ UNCHANGED <<sales, seq>>
             ELSE /\ pending' = [pending EXCEPT !.stack = SubSeq(@, 1, Len(@) - 1),
                                                !.ret = r.env]
                  /\ sales' = r.rows
                  /\ seq' = [seq EXCEPT !.sales = r.seq]
    /\ UNCHANGED <<customers, products, last>>

\* the call that returned last hands its result ret to its caller: the
\* caller of the chain; or the Router, which returns it under `response`; or
\* make_sale, which takes the customer's name from it and asks the Router for
\* the product, or takes the product's name and price from it and inserts
ChainReturn ==
    /\ pending.agent = "RouterAgent" /\ "stack" \in DOMAIN pending
    /\ pending.ret # NoRequest
    /\ LET depth == Len(pending.stack)
           top == pending.stack[depth]
           answer == Return(Wire(pending.ret, "str"))
           name == Except(CustomerNameFrom(answer), None).val
           sold(customer_name, details) ==
              handle_task(top.text, "Please provide a sales management command.",
                          SaleMade(Sell(customer_name, details, top.a, sales,
                                        seq.sales, "ok"),
                                   top.a.customer_id, top.a.product_id, top.a.quantity,
                                   sales, seq.sales),
                          sales, seq.sales)
           done(r) == /\ pending' = [pending EXCEPT !.stack = SubSeq(@, 1, depth - 1),
                                                    !.ret = r.env]
                      /\ sales' = r.rows
                      /\ seq' = [seq EXCEPT !.sales = r.seq]
                      /\ UNCHANGED last
       IN CASE depth = 0 ->
                  /\ last' = [agent |-> pending.agent,
                              req |-> [agent |-> pending.agent, text |-> pending.text],
                              env |-> pending.ret]
                  /\ pending' = NoRequest
                  /\ UNCHANGED <<sales, seq>>
            [] depth > 0 /\ top.agent = "RouterAgent" ->
                  /\ pending' = [pending EXCEPT
                                    !.stack = SubSeq(@, 1, depth - 1),
                                    !.ret = route_and_execute(
                                               top.text,
                                               [exc |-> FALSE, content |-> Str("SalesAgent")],
                                               AgentNames,
                                               [a \in AgentNames |-> answer])]
                  /\ UNCHANGED <<sales, seq, last>>
            [] depth > 0 /\ top.agent = "SalesAgent" /\ top.stage = "customer" ->
                  IF ~Truthy(name) THEN done(sold(name, NoDetails))
                  ELSE /\ pending' = [pending EXCEPT
                                         !.stack = SubSeq(@, 1, depth - 1)
                                            \o <<[agent |-> "SalesAgent", text |-> top.text,
                                                  stage |-> "product", a |-> top.a,
                                                  customer_name |-> name],
                                                 [agent |-> "RouterAgent",
                                                  text |-> LookupCommand("product",
                                                                         top.a.product_id)]>>,
                                         !.ret = NoRequest]
                       /\ UNCHANGED <<sales, seq, last>>
            [] depth > 0 /\ top.agent = "SalesAgent" /\ top.stage = "product" ->
                  done(sold(top.customer_name,
                            Except(ProductDetailsFrom(answer), NoDetails).val))
    /\ UNCHANGED <<customers, products>>

\* one command at a time through the Router, with every reply of the
\* classifiers
NextChain ==
    \/ SubmitFrom(ChainRequests) \/ CustomerCommand \/ ProductCommand
    \/ ChainRoute \/ ChainHandle \/ ChainReturn \/ Reply
SpecChain == Init /\ [][NextChain]_vars

\* ================================================================ claims
\* C1: in every reachable state every stored sale row satisfies
\* total_price = price * quantity.
C1_TotalIsPriceTimesQuantity ==
    \A i \in DOMAIN sales : sales[i].total_price.cents = sales[i].price.cents * sales[i].quantity

\* C2: customer and product commands (update and delete among them) leave the
\* sales table as it is, and a sale row that stays in the table changes only
\* in a step that handles update_sale for that row's id.
C2_SnapshotsKept ==
    [][/\ pending.agent \in {"CustomerAgent", "ProductAgent"} => sales' = sales
       /\ \A i \in DOMAIN sales \cap DOMAIN sales' :
             sales'[i] # sales[i] =>
                /\ pending.agent = "SalesAgent"
                /\ pending.intent = "update_sale"
                /\ Get(Dict(pending.params), "id", None) = Whole(i)]_vars

\* a customer was renamed and the sale made before still carries the old name
C2_StaleSnapshot ==
    /\ last.agent = "CustomerAgent"
    /\ last.req.intent = "update_customer"
    /\ Get(last.env, "status", None) = Success
    /\ 1 \in DOMAIN sales /\ 1 \in DOMAIN customers
    /\ sales[1].customer_id = 1
    /\ sales[1].customer_name # customers[1].name

\* C3: with both lookups answered normally and a valid quantity, make_sale for
\* a customer id that no customer has fails with the "Customer not found"
\* error; for an existing customer and a product id that no product has it
\* fails with the "Product not found" error; the sales table stays as it is.
C3_LookupNamed ==
    [][(/\ pending.agent = "SalesAgent"
        /\ pending.intent = "make_sale"
        /\ pending.sc1 = Healthy /\ pending.sc2 = Healthy
        /\ IsNum(Get(Dict(pending.params), "customer_id", None))
        /\ Get(Dict(pending.params), "quantity", None) = Whole(2))
       => LET c == Get(Dict(pending.params), "customer_id", None).m \div 1000
              p == Get(Dict(pending.params), "product_id", None).m \div 1000
              failed(lookup) ==
                 /\ Get(last'.env, "status", None) = Error
                 /\ \E k \in DOMAIN Get(last'.env, "message", EmptyStr).s :
                       Get(last'.env, "message", EmptyStr).s[k] = Ch(lookup)
                 /\ sales' = sales
          IN /\ c \notin DOMAIN customers
                => failed("Customer not found: No customer exists with ID ")
             /\ c \in DOMAIN customers /\ p \notin DOMAIN products
                => failed("Product not found: No product exists with ID ")]_vars

\* C4: a successful make_sale(c, p, q) adds exactly one sale row, which holds
\* the current name of customer c, the current name and price of product p,
\* quantity q and total_price = price * q; the other rows stay as they are.
C4_SaleRecorded ==
    [][(/\ pending.agent = "SalesAgent"
        /\ pending.intent = "make_sale"
        /\ Get(last'.env, "status", None) = Success)
       => LET c == Get(Dict(pending.params), "customer_id", None).m \div 1000
              p == Get(Dict(pending.params), "product_id", None).m \div 1000
              q == Get(Dict(pending.params), "quantity", None)
              new == seq.sales + 1
          IN /\ new \notin DOMAIN sales
             /\ DOMAIN sales' = DOMAIN sales \cup {new}
             /\ \A i \in DOMAIN sales : sales'[i] = sales[i]
             /\ sales'[new].customer_name = customers[c].name
             /\ sales'[new].product_name = products[p].name
             /\ sales'[new].price = products[p].price
             /\ sales'[new].quantity * 1000 = q.m
             /\ sales'[new].total_price.cents * 1000 = products[p].price.cents * q.m]_vars

\* C5: a successful update_sale leaves the row with customer_id, product_id
\* and quantity equal to the supplied value, or to the stored one where the
\* argument is omitted, with the names and the price the current ones for
\* those ids, and with total_price = price * quantity.
C5_SaleRefreshed ==
    [][(/\ pending.agent = "SalesAgent"
        /\ pending.intent = "update_sale"
        /\ Get(last'.env, "status", None) = Success)
       => LET i == Get(Dict(pending.params), "id", None).m \div 1000
              given(k, stored) ==
                 IF Get(Dict(pending.params), k, None) # None
                 THEN Get(Dict(pending.params), k, None).m
                 ELSE stored * 1000
              c == given("customer_id", sales[i].customer_id)
              p == given("product_id", sales[i].product_id)
              q == given("quantity", sales[i].quantity)
          IN /\ sales'[i].customer_id * 1000 = c
             /\ sales'[i].product_id * 1000 = p
             /\ sales'[i].quantity * 1000 = q
             /\ sales'[i].customer_name = customers[c \div 1000].name
             /\ sales'[i].product_name = products[p \div 1000].name
             /\ sales'[i].price = products[p \div 1000].price
             /\ sales'[i].total_price.cents * 1000 = products[p \div 1000].price.cents * q]_vars

\* C6: for a successful Router result, parse_agent_response returns the same
\* agent envelope whether `response` arrives as JSON text or already decoded.
C6_SameEnvelope ==
    "encoded" \in DOMAIN last => last.encoded = last.decoded

\* C7: get_customer_name and get_product_details never raise, and they return
\* the not-found value when the Router cannot be reached, when either layer of
\* the reply cannot be decoded, when the Router's result is an error (no agent
\* chosen, the agent unreachable) and when the agent's envelope is an error
\* (the other agent was chosen, or no row has the id).
C7_LookupsNeverRaise ==
    "out" \in DOMAIN last =>
       LET sc == last.req.sc1
           customer == last.req.intent = "get_customer_name"
           id == Get(Dict(last.req.params), "id", None)
       IN /\ ~last.out.exc
          /\ (\/ sc.outer \in {"down", "cut", "bad"}
              \/ sc.inner \in {"cut", "bad"}
              \/ sc.route # "owner"
              \/ sc.agent = "down"
              \/ id.m \div 1000 \notin DOMAIN (IF customer THEN customers ELSE products))
             => last.out.val = (IF customer THEN None ELSE NoDetails)

\* the Router could not be reached, and the lookup returned not-found
C7_RouterDownNotFound ==
    /\ "out" \in DOMAIN last
    /\ last.req.intent = "get_customer_name"
    /\ last.req.sc1.outer = "down"
    /\ 1 \in DOMAIN customers
    /\ Get(Dict(last.req.params), "id", None) = Whole(1)
    /\ last.out = Return(None)

\* C8: in every reachable state every stored sale row has quantity > 0 and
\* total_price >= 0.
C8_PositiveQuantity ==
    \A i \in DOMAIN sales : sales[i].quantity > 0 /\ sales[i].total_price.cents >= 0

\* C9: in every reachable state every stored customer row and every stored
\* product row has a non-empty name.
C9_NamesNonEmpty ==
    /\ \A i \in DOMAIN customers : Truthy(customers[i].name)
    /\ \A i \in DOMAIN products : Truthy(products[i].name)

\* C10: an add_product or update_product command whose price is negative or
\* does not parse as a number returns an error envelope and leaves the products
\* table as it is, and every stored product row has a price that is a number
\* >= 0.
C10_BadPriceRejected ==
    [][/\ (/\ pending.agent = "ProductAgent"
           /\ pending.intent \in {"add_product", "update_product"}
           /\ LET price == Get(Dict(pending.params), "price", None)
              IN \/ IsNum(price) /\ price # NaN /\ price.m < 0
                 \/ IsStr(price) /\ price # Str("nan")
                    /\ \A k \in DOMAIN price.s : "n" \notin DOMAIN price.s[k]
                 \/ IsStr(price) /\ \E k \in DOMAIN price.s :
                                       "n" \in DOMAIN price.s[k] /\ price.s[k].n < 0)
          => /\ products' = products
             /\ Get(last'.env, "status", None) = Error
       /\ \A i \in DOMAIN products' :
             products'[i].price # PgNaN /\ products'[i].price.cents >= 0]_vars

\* the agents asked among the calls of a Router command, in order
IsAgentName(e) == e \in AgentNames
Forwards(calls) == SelectSeq(calls, IsAgentName)

\* the name the Router's classifier replied in the pending task: one of the
\* three agent names (white space around it aside), else ""
RepliedName ==
    IF pending.reply.exc THEN ""
    ELSE IF \E a \in AgentNames : Strip(pending.reply.content) = Str(a)
    THEN CHOOSE a \in AgentNames : Strip(pending.reply.content) = Str(a)
    ELSE ""

\* the result of the step is tagged routed_to = a and holds under `response`
\* the reply of agent a: an envelope for the command's own action when a owns
\* the command, the "unknown" envelope when it does not, the parse_command
\* envelope when a's classifier gave no usable answer
TaggedFor(a) ==
    /\ IsDict(last'.env)
    /\ Get(last'.env, "status", None) = Success
    /\ Get(last'.env, "routed_to", None) = Str(a)
    /\ Get(last'.env, "command", None) = pending.text
    /\ LET response == Get(last'.env, "response", None)
           reply == IF IsStr(response) THEN Loads(response).val ELSE response
           owner == CASE pending.intent \in {"add_customer", "get_customer",
                                             "delete_customer"} -> "CustomerAgent"
                      [] pending.intent \in {"add_product", "get_product"} -> "ProductAgent"
                      [] pending.intent \in {"make_sale", "update_sale", "list_sales"}
                            -> "SalesAgent"
                      [] OTHER -> ""
       IN /\ IsDict(reply)
          /\ Get(reply, "action", None)
                \in IF a = owner THEN {Str(pending.intent), Str("parse_command")}
                    ELSE IF pending.intent \in ClassifierFailures
                    THEN {Str("parse_command")}
                    ELSE {Str("unknown")}

\* C11: the Router forwards the command to agent A and tags the result
\* routed_to = A with A's reply under `response` exactly when its classifier
\* replied the name A; for the reply None, a reply outside the closed set or a
\* classifier failure it returns an error result and asks no agent.
C11_RoutesByName ==
    [][(pending.agent = "RouterAgent" /\ Truthy(pending.text))
       => /\ \A a \in AgentNames :
                (Forwards(last'.calls) = <<a>> /\ TaggedFor(a)) <=> RepliedName = a
          /\ RepliedName = ""
                => /\ Get(last'.env, "status", None) = Error
                   /\ last'.calls = <<>>
                   /\ UNCHANGED <<customers, products, sales, seq>>]_vars

\* C11 as amended: the Router asks agent A exactly when its classifier replied
\* the name A and the directory holds A, and it tags the result routed_to = A
\* with A's reply under `response` exactly when, in addition, A's ask returns;
\* in every other case it returns an error result, and when no name was
\* replied it asks no agent.
C11_RoutesByNameIfReachable ==
    [][(pending.agent = "RouterAgent" /\ Truthy(pending.text))
       => /\ \A a \in AgentNames :
                /\ Forwards(last'.calls) = <<a>> <=> (RepliedName = a /\ a \in pending.network)
                /\ TaggedFor(a) <=> (RepliedName = a /\ a \in pending.network
                                     /\ pending.up = "up")
          /\ (\A a \in AgentNames : ~TaggedFor(a))
                => Get(last'.env, "status", None) = Error
          /\ RepliedName = ""
                => /\ last'.calls = <<>>
                   /\ UNCHANGED <<customers, products, sales, seq>>]_vars

\* the classifier replied " CustomerAgent " and the Router's result carries
\* the CustomerAgent's answer to add_customer
C11_RoutedToCustomerAgent ==
    /\ last.agent = "RouterAgent"
    /\ last.req.intent = "add_customer"
    /\ last.req.reply.content = PyStr(<<Ch(" "), Ch("CustomerAgent"), Ch(" ")>>)
    /\ Forwards(last.calls) = <<"CustomerAgent">>
    /\ Get(last.env, "routed_to", None) = Str("CustomerAgent")
    /\ 1 \in DOMAIN customers


\* C12: when the ask of the agent the classifier named fails with a network
\* or timeout error, the Router's result is an error result whose message
\* names that agent and which carries the original command; the task ends
\* FAILED with that message, no exception reaches the caller.
C12_ForwardFailureReported ==
    [][(/\ pending.agent = "RouterAgent" /\ Truthy(pending.text)
        /\ RepliedName \in pending.network
        /\ pending.up \in {"refused", "timeout"})
       => /\ IsDict(last'.env)
          /\ Get(last'.env, "status", None) = Error
          /\ IsStr(Get(last'.env, "message", None))
          /\ \E i \in DOMAIN Get(last'.env, "message", None).s :
                 /\ Get(last'.env, "message", None).s[i] = Ch(RepliedName)
                 /\ i > 1
                 /\ Get(last'.env, "message", None).s[i - 1] = Ch("Error communicating with ")
          /\ Get(last'.env, "command", None) = pending.text
          /\ last'.task.state = "FAILED"
          /\ last'.task.message = Get(last'.env, "message", None)]_vars

\* the SalesAgent was named, its ask timed out, and the Router answered with
\* the error result
C12_SalesAgentTimedOut ==
    /\ last.agent = "RouterAgent"
    /\ last.classified
    /\ last.req.up = "timeout"
    /\ last.req.reply.content = Str("SalesAgent")
    /\ Forwards(last.calls) = <<"SalesAgent">>
    /\ Get(last.env, "status", None) = Error
    /\ Get(last.env, "message", None)
          = PyStr(<<Ch("Error communicating with "), Ch("SalesAgent"), Ch(": "), Ch("timed out")>>)

\* C13: whenever an Entity Agent's command processor returns an envelope with
\* status error (action unknown, parse_command, or a not-found result), the
\* agent's table is what it was before the call.
C13_ErrorLeavesTable ==
    [][(/\ pending.agent \in AgentNames
        /\ last'.classified
        /\ Get(last'.env, "status", None) = Error)
       => CASE pending.agent = "CustomerAgent" -> customers' = customers
            [] pending.agent = "ProductAgent"  -> products' = products
            [] pending.agent = "SalesAgent"    -> sales' = sales]_vars

\* the store failed under delete_customer 1 and customer 1 is still there
C13_FailedDeleteKeptRow ==
    /\ last.agent = "CustomerAgent"
    /\ last.classified
    /\ last.req.intent = "delete_customer"
    /\ last.req.db = "error"
    /\ Get(last.env, "status", None) = Error
    /\ Get(last.env, "action", None) = Str("parse_command")
    /\ 1 \in DOMAIN customers

\* a structured result: a dict whose status is success or error and which,
\* when the status is error, holds a message that is a non-empty str
Structured(result) ==
    /\ IsDict(result)
    /\ Get(result, "status", None) \in {Success, Error}
    /\ Get(result, "status", None) = Error
          => IsStr(Get(result, "message", None)) /\ Truthy(Get(result, "message", None))

\* the reply an agent's ask returned, as it lies under `response`
Response(result) ==
    IF IsStr(Get(result, "response", None)) THEN Loads(Get(result, "response", None)).val
    ELSE Get(result, "response", None)

\* C14: whatever the classifiers answer and however the store or the
\* transport fails, every entry point returns a structured result: the
\* Router's route_and_execute and handle_task, and under `response` of a
\* routed result the agent's ask, that is its command processor; the task
\* always ends COMPLETED or FAILED, no exception escapes.
C14_StructuredResults ==
    (last # NoResult /\ last.classified)
       => /\ Structured(last.env)
          /\ last.task.state \in {"COMPLETED", "FAILED"}
          /\ last.task.state = "FAILED" => last.task.message = Get(last.env, "message", None)
          /\ (last.agent = "RouterAgent" /\ Get(last.env, "status", None) = Success)
                => Structured(Response(last.env))

\* the ProductAgent's store failed under add_product and the Router's result
\* carries the agent's error envelope
C14_StoreFailureRouted ==
    /\ last.agent = "RouterAgent"
    /\ last.classified
    /\ last.req.intent = "add_product"
    /\ last.req.db = "error"
    /\ Forwards(last.calls) = <<"ProductAgent">>
    /\ Get(last.env, "status", None) = Success
    /\ Get(Response(last.env), "status", None) = Error
    /\ Get(Response(last.env), "action", None) = Str("parse_command")

\* C15: update_customer and update_product change exactly the supplied
\* (non-null) fields of the row with the given id: every other row and every
\* field not supplied stay as they were, and when the id is given, the store
\* works and the price is valid, every supplied field holds the supplied
\* value afterwards and the command succeeds if the row exists; when no field
\* is supplied nothing changes and the command returns the error envelope
\* "... or nothing to update".
C15_UpdatesSuppliedFields ==
    [][(/\ pending.agent \in {"CustomerAgent", "ProductAgent"}
        /\ Truthy(pending.text)
        /\ pending.intent \in {"update_customer", "update_product"})
       => LET customer == pending.agent = "CustomerAgent"
              p == Dict(pending.params)
              id == Get(p, "id", None)
              before == IF customer THEN customers ELSE products
              after == IF customer THEN customers' ELSE products'
              Fields == IF customer THEN {"name", "email"}
                        ELSE {"name", "description", "price"}
              supplied(f) == Get(p, f, None) # None
              price == CheckPrice(Get(p, "price", None))
              stored(f) == IF f = "price" THEN PgDecimal(price.val) ELSE Get(p, f, None)
              valid == /\ Truthy(id)
                       /\ pending.db = "ok"
                       /\ (~customer /\ supplied("price"))
                             => ~price.exc /\ DecimalFits(price.val)
              hit == RowsMatching(id, before)
          IN /\ DOMAIN after = DOMAIN before
             /\ \A j \in DOMAIN before \ hit : after[j] = before[j]
             /\ \A j \in hit : \A f \in Fields :
                   ~supplied(f) => after[j][f] = before[j][f]
             /\ (valid /\ \E f \in Fields : supplied(f))
                   => /\ \A j \in hit : \A f \in Fields :
                            supplied(f) => after[j][f] = stored(f)
                      /\ hit # {} => Get(last'.env, "status", None) = Success
             /\ (Truthy(id) /\ \A f \in Fields : ~supplied(f))
                   => /\ after = before
                      /\ Get(last'.env, "status", None) = Error
                      /\ Get(last'.env, "action", None) = Str(pending.intent)
                      /\ \E i \in DOMAIN Get(last'.env, "message", None).s :
                            Get(last'.env, "message", None).s[i]
                               = Ch(" or nothing to update")]_vars

\* C16: with the store working, a get or delete command for an id that
\* matches no row returns an error envelope with the command's own action and
\* a not-found message and leaves the table as it was; a get never changes
\* the table; a delete for an existing id removes exactly that row.
C16_NotFoundReported ==
    [][(/\ pending.agent \in {"CustomerAgent", "ProductAgent"}
        /\ Truthy(pending.text)
        /\ pending.intent \in {"get_customer", "delete_customer",
                               "get_product", "delete_product"}
        /\ pending.db = "ok"
        /\ IsNum(Get(Dict(pending.params), "id", None)))
       => LET customer == pending.agent = "CustomerAgent"
              before == IF customer THEN customers ELSE products
              after == IF customer THEN customers' ELSE products'
              hit == RowsMatching(Get(Dict(pending.params), "id", None), before)
              message == Get(last'.env, "message", None)
          IN /\ hit = {}
                   => /\ Get(last'.env, "status", None) = Error
                      /\ Get(last'.env, "action", None) = Str(pending.intent)
                      /\ IsStr(message)
                      /\ Head(message.s) = Ch(IF customer THEN "No customer found with ID "
                                              ELSE "No product found with ID ")
                      /\ after = before
             /\ pending.intent \in {"get_customer", "get_product"} => after = before
             /\ (pending.intent \in {"delete_customer", "delete_product"} /\ hit # {})
                   => /\ Get(last'.env, "status", None) = Success
                      /\ DOMAIN after = DOMAIN before \ hit
                      /\ \A j \in DOMAIN after : after[j] = before[j]]_vars

\* C17: a handle_task call ends INPUT_REQUIRED exactly when the task's text
\* is empty, and then without a classifier call, a lookup, a store operation
\* or an artifact; otherwise it ends COMPLETED exactly when the envelope of
\* the command processor has status success, else FAILED with the envelope's
\* message, and artifacts[0].parts[0].text is the JSON text of that envelope.
C17_TaskStates ==
    [][pending.agent \in AgentNames
       => /\ last'.task.state \in {"INPUT_REQUIRED", "COMPLETED", "FAILED"}
          /\ last'.task.state = "INPUT_REQUIRED" <=> pending.text = EmptyStr
          /\ pending.text = EmptyStr
                => /\ ~last'.classified
                   /\ last'.calls = <<>>
                   /\ last'.task.artifacts = <<>>
                   /\ UNCHANGED <<customers, products, sales, seq>>
          /\ pending.text # EmptyStr
                => /\ last'.classified
                   /\ last'.task.state = "COMPLETED"
                         <=> Get(last'.env, "status", None) = Success
                   /\ last'.task.state = "FAILED"
                         => last'.task.message = Get(last'.env, "message", None)
                   /\ Len(last'.task.artifacts) = 1
                   /\ Len(last'.task.artifacts[1].parts) = 1
                   /\ last'.task.artifacts[1].parts[1].type = "text"
                   /\ Loads(last'.task.artifacts[1].parts[1].text)
                         = [ok |-> TRUE, val |-> last'.env]]_vars

\* a sales task ended FAILED with the message of its error envelope
C17_SalesTaskFailed ==
    /\ last.agent = "SalesAgent"
    /\ last.classified
    /\ last.req.intent = "make_sale"
    /\ last.task.state = "FAILED"
    /\ Get(last.env, "status", None) = Error
    /\ last.task.message = Get(last.env, "message", None)
    /\ Loads(last.task.artifacts[1].parts[1].text).val = last.env

\* C18: whatever updates of the customer and the product commit between
\* make_sale's two lookups and its insert, the row make_sale commits holds the
\* names and the price the lookups returned: it neither reads them again nor
\* keeps the updates out, so a just-inserted row can differ from the
\* customer's name and the product's price at the time of the insert.
C18_InsertsWhatItResolved ==
    [][(/\ pending.agent = "SalesAgent"
        /\ "resolved" \in DOMAIN pending
        /\ last' # last
        /\ Get(last'.env, "status", None) = Success)
       => /\ DOMAIN sales' = DOMAIN sales \cup {seq'.sales}
          /\ seq'.sales \notin DOMAIN sales
          /\ sales'[seq'.sales].customer_name = pending.resolved.customer_name
          /\ sales'[seq'.sales].product_name = pending.resolved.details.name
          /\ sales'[seq'.sales].price = PgDecimal(pending.resolved.details.price)]_vars

\* a sale was just inserted whose customer was renamed and whose product was
\* repriced after make_sale had looked them up
C18_StaleAtInsert ==
    /\ last.agent = "SalesAgent"
    /\ "resolved" \in DOMAIN last.req
    /\ Get(last.env, "status", None) = Success
    /\ seq.sales \in DOMAIN sales
    /\ sales[seq.sales].customer_id \in DOMAIN customers
    /\ sales[seq.sales].product_id \in DOMAIN products
    /\ sales[seq.sales].customer_name # customers[sales[seq.sales].customer_id].name
    /\ sales[seq.sales].price # products[sales[seq.sales].product_id].price

\* C19: when both lookups of make_sale succeed and the insert raises a store
\* error, the transaction is rolled back, the sales table is what it was, and
\* the envelope reports "Database error during sale insertion", not one of
\* the two not-found conditions; a failing store makes this happen whenever
\* the arguments are good and both lookups succeed.
C19_InsertFailureRolledBack ==
    [][(/\ pending.agent = "SalesAgent" /\ pending.intent = "make_sale"
        /\ "resolved" \notin DOMAIN pending
        /\ last' # last)
       => LET message == Get(last'.env, "message", None)
              has(piece) == \E i \in DOMAIN message.s : message.s[i] = Ch(piece)
              looked == /\ SaleArgsValid
                        /\ Truthy(get_customer_name(SaleArgs.customer_id, pending.sc1,
                                                    customers, products).val)
                        /\ Truthy(get_product_details(SaleArgs.product_id, pending.sc2,
                                                      customers, products).val.name)
                        /\ get_product_details(SaleArgs.product_id, pending.sc2,
                                               customers, products).val.price # None
              failed == /\ Len(last'.calls) = 6
                        /\ last'.calls[4] = "INSERT"
                        /\ Get(last'.env, "status", None) = Error
          IN /\ (looked /\ pending.db = "error") => failed
             /\ failed
                   => /\ looked
                      /\ last'.calls = <<"get_customer_name", "get_product_details",
                                         "connect", "INSERT", "rollback", "close">>
                      /\ sales' = sales
                      /\ has("Database error during sale insertion: ")
                      /\ ~has("Customer not found: No customer exists with ID ")
                      /\ ~has("Product not found: No product exists with ID ")
             /\ (has("Customer not found: No customer exists with ID ")
                 \/ has("Product not found: No product exists with ID "))
                   => ~has("Database error during sale insertion: ")]_vars

\* the store failed under the insert of a sale of product 1 to customer 1
C19_InsertFailed ==
    /\ last.agent = "SalesAgent"
    /\ last.classified
    /\ last.req.intent = "make_sale"
    /\ last.req.db = "error"
    /\ last.calls = <<"get_customer_name", "get_product_details",
                    "connect", "INSERT", "rollback", "close">>
    /\ Get(last.env, "status", None) = Error
    /\ 1 \in DOMAIN customers /\ 1 \in DOMAIN products

\* C20: an update_sale command that does not succeed leaves every row of the
\* sales table as it was and yields an error envelope; it does not succeed
\* when no sale has the given id, and when the lookup of the sale's customer
\* or product (the new one if given, else the stored one) finds nothing.
C20_FailedUpdateKeepsSales ==
    [][(/\ pending.agent = "SalesAgent" /\ pending.intent = "update_sale"
        /\ Truthy(pending.text))
       => LET p == Dict(pending.params)
              hit == RowsMatching(Get(p, "id", None), sales)
              cur == sales[CHOOSE i \in hit : TRUE]
              customer_id == IF Get(p, "customer_id", None) # None
                             THEN Get(p, "customer_id", None) ELSE Whole(cur.customer_id)
              product_id == IF Get(p, "product_id", None) # None
                            THEN Get(p, "product_id", None) ELSE Whole(cur.product_id)
              unresolved ==
                 \/ ~Truthy(get_customer_name(customer_id, pending.sc1,
                                              customers, products).val)
                 \/ ~Truthy(get_product_details(product_id, pending.sc2,
                                                customers, products).val.name)
                 \/ get_product_details(product_id, pending.sc2,
                                        customers, products).val.price = None
          IN /\ Get(last'.env, "status", None) # Success
                   => /\ Get(last'.env, "status", None) = Error
                      /\ IsStr(Get(last'.env, "message", None))
                      /\ sales' = sales
             /\ (hit = {} \/ unresolved) => Get(last'.env, "status", None) # Success
             /\ hit = {} => Get(last'.env, "action", None)
                               \in {Str("update_sale"), Str("parse_command")}]_vars

\* update_sale of an existing sale failed because the Router could not be
\* reached for a lookup
C20_UpdateFailedUnresolved ==
    /\ last.agent = "SalesAgent"
    /\ last.classified
    /\ last.req.intent = "update_sale"
    /\ RowsMatching(Get(Dict(last.req.params), "id", None), sales) # {}
    /\ Get(last.env, "status", None) = Error
    /\ Get(last.env, "message", None)
          = PyStr(<<Ch("Command failed: "), Ch("Invalid customer or product ID for update")>>)

\* C21: a table holds one row per id, every id in it was handed out by the
\* table's sequence, and through every command: a row that appears has an id
\* the sequence never handed out before (so never the id of a deleted row),
\* the sequence never goes back, and an update command leaves the ids of its
\* table as they are.
C21_IdsNeverReused ==
    [][/\ \A i \in DOMAIN customers' \ DOMAIN customers :
             i > seq.customers /\ i <= seq'.customers
       /\ \A i \in DOMAIN products' \ DOMAIN products :
             i > seq.products /\ i <= seq'.products
       /\ \A i \in DOMAIN sales' \ DOMAIN sales : i > seq.sales /\ i <= seq'.sales
       /\ seq'.customers >= seq.customers /\ seq'.products >= seq.products
       /\ seq'.sales >= seq.sales
       /\ DOMAIN customers \subseteq 1..seq.customers
       /\ DOMAIN products \subseteq 1..seq.products
       /\ DOMAIN sales \subseteq 1..seq.sales
       /\ (/\ pending.agent \in AgentNames
           /\ pending.intent \in {"update_customer", "update_product", "update_sale"})
             => /\ DOMAIN customers' = DOMAIN customers
                /\ DOMAIN products' = DOMAIN products
                /\ DOMAIN sales' = DOMAIN sales]_vars

\* customer 1 was deleted and the customer added after that has the id 2
C21_AddedAfterDelete ==
    /\ last.agent = "CustomerAgent"
    /\ last.req.intent = "add_customer"
    /\ Get(last.env, "status", None) = Success
    /\ Get(Get(last.env, "customer", None), "id", None) = Whole(2)
    /\ DOMAIN customers = {2}

\* C22: for every non-empty name and every price >= 0, an add_product
\* command that succeeds, followed at once by a get_product command on the
\* id it returned, returns a row with exactly that name and that price.
C22_AddThenGet ==
    [][(/\ pending.agent = "ProductAgent" /\ pending.intent = "add_product"
        /\ Truthy(pending.text)
        /\ IsStr(Get(Dict(pending.params), "name", None))
        /\ Truthy(Get(Dict(pending.params), "name", None))
        /\ IsNum(Get(Dict(pending.params), "price", None))
        /\ Get(Dict(pending.params), "price", None) # NaN
        /\ Get(Dict(pending.params), "price", None).m >= 0
        /\ Get(last'.env, "status", None) = Success)
       => LET id == Get(Get(last'.env, "product", None), "id", None)
              got == process_product_command(IntentReply("get_product", Param("id", id)),
                                             products', seq'.products, "ok").env
          IN /\ Get(got, "status", None) = Success
             /\ Get(Get(got, "product", None), "id", None) = id
             /\ Get(Get(got, "product", None), "name", None)
                   = Get(Dict(pending.params), "name", None)
             /\ Get(Get(got, "product", None), "price", None)
                   = Get(Dict(pending.params), "price", None)]_vars
\* ---------------------------------------------------------------- C23
\* C23: when the Router cannot be reached during a lookup of make_sale or
\* update_sale, the command ends in an error result (the SalesAgent does not
\* crash) that differs from the result the same command gives when every hop
\* answers and the customer or product simply does not exist.
C23_TransportErrorDistinct ==
    [][(/\ pending.agent = "SalesAgent"
        /\ pending.intent \in {"make_sale", "update_sale"}
        /\ Truthy(pending.text))
       => /\ (/\ pending.sc1.outer = "down"
              /\ \E i \in DOMAIN last'.calls : last'.calls[i] = "get_customer_name")
             => /\ IsDict(last'.env)
                /\ Get(last'.env, "status", None) = Error
                /\ last'.env # process_sales_command(
                                   Classify(pending.intent, pending.params),
                                   Healthy, pending.sc2, sales, seq.sales, pending.db,
                                   <<>>, products).env
          /\ (/\ pending.sc2.outer = "down"
              /\ \E i \in DOMAIN last'.calls : last'.calls[i] = "get_product_details")
             => /\ IsDict(last'.env)
                /\ Get(last'.env, "status", None) = Error
                /\ last'.env # process_sales_command(
                                   Classify(pending.intent, pending.params),
                                   pending.sc1, Healthy, sales, seq.sales, pending.db,
                                   customers, <<>>).env]_vars
\* ---------------------------------------------------------------- C24
\* how often event e occurs among the calls of the command just handled
Count(e, calls) == Cardinality({i \in DOMAIN calls : calls[i] = e})

\* the command processor caught an exception
Excepted(env) == Get(env, "action", None) = Str("parse_command")

\* the connection of the command just handled, once opened, is closed last
\* and commits at most once, and only when no exception was raised
ClosedAndCommitted(env, calls) ==
    /\ Count("close", calls) = Count("connect", calls)
    /\ Count("connect", calls) = 1 => calls[Len(calls)] = "close"
    /\ Count("commit", calls) <= 1
    /\ Count("commit", calls) = 1
          => /\ Count("connect", calls) = 1
             /\ Count("rollback", calls) = 0
             /\ ~Excepted(env)

C25_MakeSaleInOrder ==
    [][(/\ pending.agent = "SalesAgent" /\ pending.intent = "make_sale"
        /\ Truthy(pending.text)
        /\ "resolved" \notin DOMAIN pending
        /\ last' # last)
       => LET steps == <<"get_customer_name", "get_product_details", "connect", "INSERT">>
              calls == last'.calls
              name == get_customer_name(SaleArgs.customer_id, pending.sc1,
                                        customers, products).val
              details == get_product_details(SaleArgs.product_id, pending.sc2,
                                             customers, products).val
          IN /\ \A i \in DOMAIN calls : i <= 4 => calls[i] = steps[i]
             /\ ~SaleArgsValid => calls = <<>> /\ sales' = sales
             /\ (SaleArgsValid /\ ~Truthy(name)) => calls = <<"get_customer_name">>
             /\ Len(calls) >= 2
                   => /\ Truthy(name)
                      /\ Len(calls) >= 4 <=> (/\ Truthy(details.name)
                                              /\ details.price # None
                                              /\ pending.db # "down")]_vars

\* a make_sale with good arguments whose customer lookup failed was answered
C25_StoppedAtCustomer ==
    /\ last.agent = "SalesAgent" /\ last.classified
    /\ last.req.intent = "make_sale"
    /\ last.calls = <<"get_customer_name">>
    /\ Get(last.env, "status", None) = Error
\* ---------------------------------------------------------------- C26
\* the agent's own envelope under `response`, when the Router's ask returned
Nested(env) == IF Get(env, "status", None) = Success THEN Response(env) ELSE env

\* C26: no operation is retried: handling one command the Router forwards it
\* to its target at most once, the target looks the customer and the product
\* up at most once each (make_sale and update_sale issue at most two Router
\* asks), attempts each store statement at most once, and the first failure
\* (an ask that raises, a lookup that finds nothing, a statement rolled back)
\* fails the whole command and stores nothing.
C26_NoRetry ==
    [][(pending.agent = "RouterAgent" /\ Truthy(pending.text))
       => LET calls == last'.calls
              failed == \/ Count("rollback", calls) > 0
                        \/ Count("get_customer_name", calls) > Count("commit", calls)
          IN /\ Len(Forwards(calls)) <= 1
             /\ \A e \in {"get_customer_name", "get_product_details", "connect",
                          "SELECT", "INSERT", "UPDATE", "DELETE", "commit",
                          "rollback", "close"} : Count(e, calls) <= 1
             /\ Count("get_customer_name", calls) + Count("get_product_details", calls) <= 2
             /\ (Forwards(calls) # <<>> /\ pending.up # "up")
                   => Get(last'.env, "status", None) = Error
             /\ failed => /\ Get(Nested(last'.env), "status", None) = Error
                          /\ last'.task.state # "INPUT_REQUIRED"
                          /\ UNCHANGED <<customers, products, sales, seq>>]_vars

\* a make_sale routed to the SalesAgent had its one INSERT rolled back
C26_RoutedInsertFailedOnce ==
    /\ last.agent = "RouterAgent" /\ last.classified
    /\ last.req.intent = "make_sale"
    /\ last.calls = <<"SalesAgent", "get_customer_name", "get_product_details",
                      "connect", "INSERT", "rollback", "close">>
    /\ sales = <<>>
\* ---------------------------------------------------------------- C28
\* C28: when two update_sale calls on the same sale overlap, one supplying
\* only a quantity and the other only a product_id, and both commit, the row
\* carries the new quantity and the new product_id: neither update is lost
\* to the other call's earlier read of the stored values.
C28_DisjointUpdatesKept ==
    [][(/\ pending.agent = "SalesAgent" /\ pending.intent = "update_sale"
        /\ "cur" \in DOMAIN pending
        /\ pending.other # NoRequest
        /\ Get(pending.other.env, "status", None) = Success
        /\ Get(last'.env, "status", None) = Success
        /\ Get(Dict(pending.params), "product_id", None) = None
        /\ Get(Dict(pending.params), "quantity", None) # None
        /\ Get(Dict(pending.other.params), "product_id", None) # None
        /\ Get(Dict(pending.other.params), "quantity", None) = None)
       => /\ Whole(sales'[1].quantity) = Get(Dict(pending.params), "quantity", None)
          /\ Whole(sales'[1].product_id)
                = Get(Dict(pending.other.params), "product_id", None)]_vars
\* ---------------------------------------------------------------- C29
\* C29: whatever the classifiers reply, a command sent to the Router ends
\* after a bounded number of calls between the agents: a lookup that the
\* SalesAgent sends to the Router never makes a further make_sale or
\* update_sale run, so at no time has more than one call of the SalesAgent
\* gone past its classifier, and no more than four calls are in progress (the
\* Router's, the SalesAgent's, the Router's for a lookup and the call of the
\* agent that the lookup is forwarded to).
C29_LookupsDoNotRecurse ==
    (pending.agent = "RouterAgent" /\ "stack" \in DOMAIN pending)
       => /\ Cardinality({i \in DOMAIN pending.stack :
                             /\ pending.stack[i].agent = "SalesAgent"
                             /\ pending.stack[i].stage # "new"}) <= 1
          /\ Len(pending.stack) <= 4
\* ---------------------------------------------------------------- C30
\* C30: the Router's result has status success, with routed_to and response,
\* exactly when the ask of the agent its classifier named returned without
\* raising, whatever the status inside the agent's envelope; so the Router's
\* task ends COMPLETED also when that envelope has status error, and every
\* error result of the Router has neither routed_to nor response.
C30_SuccessMeansAskReturned ==
    [][(pending.agent = "RouterAgent" /\ Truthy(pending.text))
       => LET result == last'.env
              returned == /\ RepliedName \in pending.network
                          /\ pending.up = "up"
              has(k) == \E i \in DOMAIN result.items : result.items[i].k = k
          IN /\ IsDict(result)
             /\ Get(result, "status", None) \in {Success, Error}
             /\ Get(result, "status", None) = Success <=> returned
             /\ returned => /\ Get(result, "routed_to", None) = Str(RepliedName)
                            /\ has("response")
                            /\ Get(Response(result), "status", None) \in {Success, Error}
             /\ last'.task.state = "COMPLETED" <=> returned
             /\ ~returned => ~has("routed_to") /\ ~has("response")]_vars

\* the CustomerAgent answered a routed get_customer with an error envelope and
\* the Router's task ended COMPLETED
C30_CompletedOverNestedError ==
    /\ last.agent = "RouterAgent" /\ last.classified
    /\ last.req.intent = "get_customer"
    /\ last.task.state = "COMPLETED"
    /\ Get(last.env, "routed_to", None) = Str("CustomerAgent")
    /\ Get(Response(last.env), "status", None) = Error
    /\ Get(Response(last.env), "action", None) = Str("get_customer")
====
